---- MODULE Spec2Model ----
(***************************************************************************)
(* Model of the Portkey model provider for Strands Agents:                 *)
(*   _errors.py      handle_api_error                                      *)
(*   _formatting.py  request formatting and format_chunk                   *)
(*   model.py        PortkeyModel.format_request and PortkeyModel.stream   *)
(*                                                                         *)
(* Python values are modelled structurally: a dict is a record (the empty  *)
(* dict is the function with empty domain), a list is a sequence, a str is *)
(* a TLA+ string, except the text of an error message, which is a sequence *)
(* of one-character strings so that lower() and the substring test `in`    *)
(* are computed character by character.                                    *)
(***************************************************************************)
EXTENDS Integers, Sequences, FiniteSets, TLC

\* ------------------------------------------------------------------------
\* Python values
\* ------------------------------------------------------------------------

\* None where a str is expected (delta.content, finish_reason, tool-call id, ...).
None == "None"

\* None where an object is expected (chunk.usage).
NoneObj == [none |-> TRUE]

\* A local variable that no assignment has bound yet.
Unbound == [unbound |-> TRUE]

\* The empty dict {}.
EmptyDict == [k \in {} |-> TRUE]

\* Truth value of an Optional[str]: None and "" are falsy.
Truthy(s) == s # None /\ s # ""

IsNoneObj(o) == "none" \in DOMAIN o

IsUnbound(v) == "unbound" \in DOMAIN v

\* ------------------------------------------------------------------------
\* _errors.py
\* ------------------------------------------------------------------------

PROMPT_IS_TOO_LONG == <<"p", "r", "o", "m", "p", "t", " ", "i", "s", " ", "t", "o", "o", " ", "l", "o", "n", "g">>
INPUT_IS_TOO_LONG == <<"i", "n", "p", "u", "t", " ", "i", "s", " ", "t", "o", "o", " ", "l", "o", "n", "g">>
MAXIMUM_CONTEXT_LENGTH == <<"m", "a", "x", "i", "m", "u", "m", " ", "c", "o", "n", "t", "e", "x", "t", " ", "l", "e", "n", "g", "t", "h">>
CONTEXT_WINDOW == <<"c", "o", "n", "t", "e", "x", "t", " ", "w", "i", "n", "d", "o", "w">>
CONTEXT_LENGTH_EXCEEDED == <<"c", "o", "n", "t", "e", "x", "t", " ", "l", "e", "n", "g", "t", "h", " ", "e", "x", "c", "e", "e", "d", "e", "d">>
TOO_MANY_TOKENS == <<"t", "o", "o", " ", "m", "a", "n", "y", " ", "t", "o", "k", "e", "n", "s">>

CONTEXT_WINDOW_OVERFLOW_MESSAGES ==
    { PROMPT_IS_TOO_LONG, INPUT_IS_TOO_LONG, MAXIMUM_CONTEXT_LENGTH,
      CONTEXT_WINDOW, CONTEXT_LENGTH_EXCEEDED, TOO_MANY_TOKENS }

\* The four literals of the throttling test.
RATE == <<"r", "a", "t", "e">>
CODE_429 == <<"4", "2", "9">>
OVERLOADED == <<"o", "v", "e", "r", "l", "o", "a", "d", "e", "d">>
CODE_529 == <<"5", "2", "9">>

UPPER == <<"A", "B", "C", "D", "E", "F", "G", "H", "I", "J", "K", "L", "M", "N", "O", "P", "Q", "R", "S", "T", "U", "V", "W", "X", "Y", "Z">>
LOWER == <<"a", "b", "c", "d", "e", "f", "g", "h", "i", "j", "k", "l", "m", "n", "o", "p", "q", "r", "s", "t", "u", "v", "w", "x", "y", "z">>

\* str.lower() on one character.
LowerChar(c) ==
    IF \E k \in 1..Len(UPPER) : UPPER[k] = c
    THEN LOWER[CHOOSE k \in 1..Len(UPPER) : UPPER[k] = c]
    ELSE c

\* str.lower()
str_lower(s) == [k \in 1..Len(s) |-> LowerChar(s[k])]

\* pattern in message  (substring test)
Contains(pattern, message) ==
    \E k \in 0..(Len(message) - Len(pattern)) :
        SubSeq(message, k + 1, k + Len(pattern)) = pattern

\* str(error) of an exception built from one message argument.
str(error) == error.message

\* The outcome of a call: it returns a value or raises an exception.
Return(value) == [raises |-> FALSE, value |-> value]
Raise(exc) == [raises |-> TRUE, exc |-> exc]

\* any(pattern in message for pattern in CONTEXT_WINDOW_OVERFLOW_MESSAGES)
IsOverflowMessage(message) ==
    \E pattern \in CONTEXT_WINDOW_OVERFLOW_MESSAGES : Contains(pattern, message)

\* "rate" in message or "429" in message or "overloaded" in message or "529" in message
IsThrottleMessage(message) ==
    \/ Contains(RATE, message)
    \/ Contains(CODE_429, message)
    \/ Contains(OVERLOADED, message)
    \/ Contains(CODE_529, message)

\* raise X(str(error)) from error
RaiseFrom(type, error) ==
    Raise([type |-> type, message |-> str(error), cause |-> error])

\* A classifier that tests for throttling before it tests for overflow.
ThrottleTestedFirst(error) ==
    LET message == str_lower(str(error)) IN
    IF IsThrottleMessage(message)
    THEN RaiseFrom("ModelThrottledException", error)
    ELSE IF IsOverflowMessage(message)
    THEN RaiseFrom("ContextWindowOverflowException", error)
    ELSE Return(None)

handle_api_error(error) ==
    LET message == str_lower(str(error)) IN
    IF IsOverflowMessage(message)
    THEN RaiseFrom("ContextWindowOverflowException", error)
    ELSE IF IsThrottleMessage(message)
    THEN RaiseFrom("ModelThrottledException", error)
    ELSE Return(None)

\* --- error texts the gateway call is made to raise ---

MsgEmpty == <<>>
MsgSpace == <<" ">>
MsgDiskFull == <<"d", "i", "s", "k", " ", "f", "u", "l", "l">>
MsgPromptCaps == <<"P", "r", "o", "m", "p", "t", " ", "I", "s", " ", "T", "o", "o", " ", "L", "o", "n", "g">>
MsgRateLimit == <<"R", "a", "t", "e", " ", "l", "i", "m", "i", "t">>
MsgOverloadedCaps == <<"O", "V", "E", "R", "L", "O", "A", "D", "E", "D">>
MsgGenerate == <<"c", "a", "n", "n", "o", "t", " ", "g", "e", "n", "e", "r", "a", "t", "e">>
MsgContext == <<"c", "o", "n", "t", "e", "x", "t">>
MsgErrorCode429 == <<"E", "r", "r", "o", "r", " ", "c", "o", "d", "e", ":", " ", "4", "2", "9", " ", "-", " ", "T", "o", "o", " ", "M", "a", "n", "y", " ", "R", "e", "q", "u", "e", "s", "t", "s">>

MessagePieces ==
    { MsgEmpty, MsgDiskFull, MsgContext, MsgGenerate,
      MsgPromptCaps, INPUT_IS_TOO_LONG, MAXIMUM_CONTEXT_LENGTH, CONTEXT_WINDOW,
      CONTEXT_LENGTH_EXCEEDED, TOO_MANY_TOKENS,
      MsgRateLimit, MsgErrorCode429, MsgOverloadedCaps, CODE_529 }

\* Every text made of two pieces joined by a space.
ErrorMessages == { a \o MsgSpace \o b : a \in MessagePieces, b \in MessagePieces }

ApiErrors == { [type |-> "Exception", message |-> m] : m \in ErrorMessages }

\* ------------------------------------------------------------------------
\* Library functions the formatter calls
\* ------------------------------------------------------------------------

\* key in d
Has(key, d) == key \in DOMAIN d

\* An Optional[list]: None, or a list.
NoneList == [none |-> TRUE]
ListOf(l) == [list |-> l]

\* Truth value of an Optional[list]: None and [] are falsy.
TruthyList(o) == Has("list", o) /\ Len(o.list) > 0

\* Truth value of an Optional[dict]: None and {} are falsy.
TruthyDict(d) == ~Has("none", d) /\ DOMAIN d # {}

\* {**base, **over}: the later keys win.
Merge(base, over) ==
    [k \in DOMAIN base \cup DOMAIN over |-> IF k \in DOMAIN over THEN over[k] ELSE base[k]]

\* sep.join(parts)
RECURSIVE Join(_, _)
Join(sep, parts) ==
    IF Len(parts) = 0 THEN ""
    ELSE IF Len(parts) = 1 THEN parts[1]
    ELSE parts[1] \o sep \o Join(sep, Tail(parts))

DIGITS == <<"0", "1", "2", "3", "4", "5", "6", "7", "8", "9">>

\* str(n) of an int
RECURSIVE IntToStr(_)
IntToStr(n) ==
    IF n < 0 THEN "-" \o IntToStr(0 - n)
    ELSE IF n < 10 THEN DIGITS[n + 1]
    ELSE IntToStr(n \div 10) \o DIGITS[(n % 10) + 1]

\* JSON values: [j |-> "null"], [j |-> "bool", v |-> b], [j |-> "int", v |-> n],
\* [j |-> "str", v |-> s] (s without characters that need escaping),
\* [j |-> "list", v |-> <<values>>], [j |-> "obj", v |-> << <<key, value>>, ... >>].
\* json.dumps with the default separators ", " and ": ".
RECURSIVE json_dumps(_)
json_dumps(o) ==
    CASE o.j = "null" -> "null"
      [] o.j = "bool" -> (IF o.v THEN "true" ELSE "false")
      [] o.j = "int"  -> IntToStr(o.v)
      [] o.j = "str"  -> "\"" \o o.v \o "\""
      [] o.j = "list" -> "[" \o Join(", ", [k \in 1..Len(o.v) |-> json_dumps(o.v[k])]) \o "]"
      [] o.j = "obj"  ->
            "{" \o Join(", ", [k \in 1..Len(o.v) |->
                                 "\"" \o o.v[k][1] \o "\": " \o json_dumps(o.v[k][2])]) \o "}"

B64_ALPHABET == <<"A", "B", "C", "D", "E", "F", "G", "H", "I", "J", "K", "L", "M", "N", "O", "P", "Q", "R", "S", "T", "U", "V", "W", "X", "Y", "Z", "a", "b", "c", "d", "e", "f", "g", "h", "i", "j", "k", "l", "m", "n", "o", "p", "q", "r", "s", "t", "u", "v", "w", "x", "y", "z", "0", "1", "2", "3", "4", "5", "6", "7", "8", "9", "+", "/">>

B64Char(n) == B64_ALPHABET[n + 1]

\* The four characters of the 24 bits n.
B64Quad(n) ==
    B64Char(n \div 262144) \o B64Char((n \div 4096) % 64)
        \o B64Char((n \div 64) % 64) \o B64Char(n % 64)

\* The three characters of the 18 bits n (two bytes and two zero bits).
B64Triple(n) == B64Char(n \div 4096) \o B64Char((n \div 64) % 64) \o B64Char(n % 64)

\* The two characters of the 12 bits n (one byte and four zero bits).
B64Pair(n) == B64Char(n \div 64) \o B64Char(n % 64)

\* base64.b64encode(bytes).decode("utf-8"), bytes a sequence of 0..255
RECURSIVE b64encode(_)
b64encode(bytes) ==
    IF Len(bytes) = 0 THEN ""
    ELSE IF Len(bytes) = 1 THEN B64Pair(bytes[1] * 16) \o "=="
    ELSE IF Len(bytes) = 2 THEN B64Triple((bytes[1] * 256 + bytes[2]) * 4) \o "="
    ELSE B64Quad(bytes[1] * 65536 + bytes[2] * 256 + bytes[3])
            \o b64encode(SubSeq(bytes, 4, Len(bytes)))

\* mimetypes.types_map.get(ext, default) for the extensions the model uses.
types_map_get(ext, default) ==
    CASE ext = ".png"  -> "image/png"
      [] ext = ".jpeg" -> "image/jpeg"
      [] ext = ".jpg"  -> "image/jpeg"
      [] ext = ".gif"  -> "image/gif"
      [] ext = ".webp" -> "image/webp"
      [] OTHER -> default

\* The outcomes of a list comprehension whose element expression may raise:
\* the first element that raises ends it.
AnyRaise(outcomes) == \E k \in 1..Len(outcomes) : outcomes[k].raises

FirstRaise(outcomes) ==
    outcomes[CHOOSE k \in 1..Len(outcomes) :
                /\ outcomes[k].raises
                /\ \A j \in 1..(k - 1) : ~outcomes[j].raises]

Values(outcomes) == [k \in 1..Len(outcomes) |-> outcomes[k].value]

Collect(outcomes) ==
    IF AnyRaise(outcomes) THEN FirstRaise(outcomes) ELSE Return(Values(outcomes))

\* ------------------------------------------------------------------------
\* _formatting.py: the request
\* ------------------------------------------------------------------------

\* next(iter(content)): the first key of a one-key content block.
FirstKey(content) == CHOOSE k \in DOMAIN content : TRUE

\* raise TypeError(f"content_type=<{next(iter(content))}> | unsupported type");
\* the exception keeps the key the message is built from.
UnsupportedType(content) ==
    Raise([type |-> "TypeError", content_type |-> FirstKey(content)])

\* Lines 30-37.
ImageUrl(mime_type, image_data) ==
    [image_url |-> [detail |-> "auto",
                    format |-> mime_type,
                    url |-> "data:" \o mime_type \o ";base64," \o image_data],
     type |-> "image_url"]

\* A formatter that turns a block it does not know into an empty text.
UnknownAsEmptyText(content) ==
    IF Has("image", content) THEN
        Return(ImageUrl(types_map_get("." \o content.image.format, "application/octet-stream"),
                        b64encode(content.image.source.bytes)))
    ELSE IF Has("text", content) THEN
        Return([text |-> content.text, type |-> "text"])
    ELSE Return([text |-> "", type |-> "text"])

format_request_message_content(content) ==
    IF Has("image", content) THEN
        Return(ImageUrl(types_map_get("." \o content.image.format, "application/octet-stream"),
                        b64encode(content.image.source.bytes)))
    ELSE IF Has("text", content) THEN
        Return([text |-> content.text, type |-> "text"])
    ELSE UnsupportedType(content)

format_request_message_tool_call(tool_use) ==
    [function |-> [arguments |-> json_dumps(tool_use.input), name |-> tool_use.name],
     id |-> tool_use.toolUseId,
     type |-> "function"]

\* Line 75: {"text": json.dumps(content["json"])} if "json" in content else content
JsonAsText(content) ==
    IF Has("json", content) THEN [text |-> json_dumps(content.json)] ELSE content

\* Lines 78-82, given the outcome of formatting the contents.
ToolMessage(tool_result, formatted) ==
    IF formatted.raises THEN formatted
    ELSE Return([role |-> "tool",
                 tool_call_id |-> tool_result.toolUseId,
                 content |-> formatted.value])

format_request_tool_message(tool_result) ==
    ToolMessage(tool_result,
                Collect([k \in 1..Len(tool_result.content) |->
                            format_request_message_content(JsonAsText(tool_result.content[k]))]))

\* [block.get("text", "") for block in blocks if "text" in block]
TextsOf(blocks) == [k \in 1..Len(blocks) |-> blocks[k].text]

\* " ".join(block.get("text", "") for block in system_prompt_content if "text" in block)
SystemText(blocks) == Join(" ", TextsOf(SelectSeq(blocks, LAMBDA block : Has("text", block))))

\* [{"role": "system", "content": text}] if text else []
SystemMessageIf(text) ==
    IF Truthy(text) THEN << [role |-> "system", content |-> text] >> ELSE << >>

\* A resolution that prefers the systemPrompt string when one is given.
PromptStringFirst(system_prompt, system_prompt_content) ==
    IF Truthy(system_prompt)
    THEN SystemMessageIf(system_prompt)
    ELSE IF TruthyList(system_prompt_content)
    THEN SystemMessageIf(SystemText(system_prompt_content.list))
    ELSE << >>

\* A resolution that falls back to the systemPrompt string when the blocks hold no text.
FallBackToPromptString(system_prompt, system_prompt_content) ==
    IF TruthyList(system_prompt_content) /\ Truthy(SystemText(system_prompt_content.list))
    THEN SystemMessageIf(SystemText(system_prompt_content.list))
    ELSE SystemMessageIf(system_prompt)

\* Lines 100-107: the system message, or none.
SystemMessages(system_prompt, system_prompt_content) ==
    IF TruthyList(system_prompt_content)
    THEN SystemMessageIf(SystemText(system_prompt_content.list))
    ELSE SystemMessageIf(system_prompt)

IsToolBlock(content) == Has("toolResult", content) \/ Has("toolUse", content)

\* [f(x) for x in xs], f an operator that returns or raises
MapOutcomes(f(_), xs) == Collect([k \in 1..Len(xs) |-> f(xs[k])])

\* [f(x) for x in xs], f an operator that returns
Map(f(_), xs) == [k \in 1..Len(xs) |-> f(xs[k])]

\* Lines 112-116.
FormattedContents(contents) ==
    MapOutcomes(format_request_message_content,
                SelectSeq(contents, LAMBDA content : ~IsToolBlock(content)))

ToolUseOf(content) == format_request_message_tool_call(content.toolUse)

\* Lines 117-119.
FormattedToolCalls(contents) ==
    Map(ToolUseOf, SelectSeq(contents, LAMBDA content : Has("toolUse", content)))

ToolResultOf(content) == format_request_tool_message(content.toolResult)

\* Lines 120-122.
FormattedToolMessages(contents) ==
    MapOutcomes(ToolResultOf, SelectSeq(contents, LAMBDA content : Has("toolResult", content)))

\* Lines 124-128.
FormattedMessage(role, formatted_contents, formatted_tool_calls) ==
    IF Len(formatted_tool_calls) > 0
    THEN [role |-> role, content |-> formatted_contents, tool_calls |-> formatted_tool_calls]
    ELSE [role |-> role, content |-> formatted_contents]

\* A loop body that appends the tool messages before the host-role message.
ToolMessagesFirst(message, formatted_contents, formatted_tool_calls, formatted_tool_messages) ==
    IF formatted_contents.raises THEN formatted_contents
    ELSE IF formatted_tool_messages.raises THEN formatted_tool_messages
    ELSE Return(formatted_tool_messages.value
                \o << FormattedMessage(message.role, formatted_contents.value,
                                       formatted_tool_calls) >>)

\* Lines 124-130, given the outcomes of the three comprehensions.
AppendedMessages(message, formatted_contents, formatted_tool_calls, formatted_tool_messages) ==
    IF formatted_contents.raises THEN formatted_contents
    ELSE IF formatted_tool_messages.raises THEN formatted_tool_messages
    ELSE Return(<< FormattedMessage(message.role, formatted_contents.value,
                                    formatted_tool_calls) >>
                \o formatted_tool_messages.value)

\* One pass of the loop over messages (lines 110-130): the messages it appends.
FormatMessage(message) ==
    AppendedMessages(message,
                     FormattedContents(message.content),
                     FormattedToolCalls(message.content),
                     FormattedToolMessages(message.content))

\* message["content"] is truthy: a non-empty str (system) or a non-empty list.
ContentTruthy(message) ==
    IF message.role = "system" THEN message.content # "" ELSE Len(message.content) > 0

\* A filter that keeps every message.
KeepEvery(message) == TRUE

\* Line 132: the final filter.
KeepMessage(message) == ContentTruthy(message) \/ Has("tool_calls", message)

\* The messages of two passes of the loop; the first exception ends the loop.
ExtendOutcome(first, rest) ==
    IF first.raises THEN first
    ELSE IF rest.raises THEN rest
    ELSE Return(first.value \o rest.value)

RECURSIVE FormatAll(_)
FormatAll(messages) ==
    IF Len(messages) = 0 THEN Return(<< >>)
    ELSE ExtendOutcome(FormatMessage(Head(messages)), FormatAll(Tail(messages)))

\* Line 132, given the system messages and the outcome of the loop.
FilterMessages(system_messages, formatted) ==
    IF formatted.raises THEN formatted
    ELSE Return(SelectSeq(system_messages \o formatted.value, KeepMessage))

format_request_messages(messages, system_prompt, system_prompt_content) ==
    FilterMessages(SystemMessages(system_prompt, system_prompt_content), FormatAll(messages))

\* The result is a str or a dict; the str s is held as [str |-> s].
format_tool_choice(tool_choice) ==
    IF Has("auto", tool_choice) THEN [str |-> "auto"]
    ELSE IF Has("any", tool_choice) THEN [str |-> "required"]
    ELSE IF Has("tool", tool_choice)
    THEN [type |-> "function", function |-> [name |-> tool_choice.tool.name]]
    ELSE [str |-> "auto"]

\* ------------------------------------------------------------------------
\* _formatting.py: the response
\* ------------------------------------------------------------------------

\* A mapping that knows tool_calls only.
ToolCallsOnlyKnown(finish_reason) ==
    IF finish_reason = "tool_calls" THEN "tool_use" ELSE "end_turn"

\* match event["data"] of a message_stop
StopReason(finish_reason) ==
    CASE finish_reason = "tool_calls" -> "tool_use"
      [] finish_reason = "length" -> "max_tokens"
      [] OTHER -> "end_turn"

\* event["data"].function.arguments or ""
ArgumentsOrEmpty(tool_call) ==
    IF Truthy(tool_call.function.arguments) THEN tool_call.function.arguments ELSE ""

format_chunk(event) ==
    CASE event.chunk_type = "message_start" ->
            Return([messageStart |-> [role |-> "assistant"]])
      [] event.chunk_type = "content_start" ->
            IF event.data_type = "tool"
            THEN Return([contentBlockStart |->
                            [start |-> [toolUse |-> [name |-> event.data.function.name,
                                                     toolUseId |-> event.data.id]]]])
            ELSE Return([contentBlockStart |-> [start |-> EmptyDict]])
      [] event.chunk_type = "content_delta" ->
            IF event.data_type = "tool"
            THEN Return([contentBlockDelta |->
                            [delta |-> [toolUse |-> [input |-> ArgumentsOrEmpty(event.data)]]]])
            ELSE IF event.data_type = "reasoning_content"
            THEN Return([contentBlockDelta |->
                            [delta |-> [reasoningContent |-> [text |-> event.data]]]])
            ELSE Return([contentBlockDelta |-> [delta |-> [text |-> event.data]]])
      [] event.chunk_type = "content_stop" ->
            Return([contentBlockStop |-> EmptyDict])
      [] event.chunk_type = "message_stop" ->
            Return([messageStop |-> [stopReason |-> StopReason(event.data)]])
      [] event.chunk_type = "metadata" ->
            Return([metadata |-> [usage |-> [inputTokens |-> event.data.prompt_tokens,
                                             outputTokens |-> event.data.completion_tokens,
                                             totalTokens |-> event.data.total_tokens],
                                  metrics |-> [latencyMs |-> 0]]])
      [] OTHER ->
            Raise([type |-> "RuntimeError", chunk_type |-> event.chunk_type])

\* ------------------------------------------------------------------------
\* model.py: PortkeyModel.format_request
\* ------------------------------------------------------------------------

\* Lines 114-124: the tools array.
FormatTools(tool_specs) ==
    [k \in 1..Len(tool_specs) |->
        [type |-> "function",
         function |-> [name |-> tool_specs[k].name,
                       description |-> tool_specs[k].description,
                       parameters |-> tool_specs[k].inputSchema.json]]]

\* request[key] = value
SetItem(request, key, value) == Merge(request, key :> value)

\* Lines 125-126.
AddToolChoice(request, tool_choice) ==
    IF TruthyDict(tool_choice)
    THEN SetItem(request, "tool_choice", format_tool_choice(tool_choice))
    ELSE request

\* Lines 113-126.
AddTools(request, tool_specs, tool_choice) ==
    IF TruthyList(tool_specs)
    THEN AddToolChoice(SetItem(request, "tools", FormatTools(tool_specs.list)), tool_choice)
    ELSE request

\* self.config.params or {}
ParamsOrEmpty(config) == IF TruthyDict(config.params) THEN config.params ELSE EmptyDict

\* Lines 103-109: the dict display; the unpacked params come last.
BaseRequest(config, formatted_messages) ==
    Merge([messages |-> formatted_messages,
           model |-> config.model_id,
           stream |-> TRUE,
           stream_options |-> [include_usage |-> TRUE]],
          ParamsOrEmpty(config))

\* Lines 103-128, given the outcome of format_request_messages.
RequestOf(config, formatted, tool_specs, tool_choice) ==
    IF formatted.raises THEN formatted
    ELSE Return(AddTools(BaseRequest(config, formatted.value), tool_specs, tool_choice))

format_request(config, messages, tool_specs, system_prompt, tool_choice, system_prompt_content) ==
    RequestOf(config,
              format_request_messages(messages, system_prompt, system_prompt_content),
              tool_specs, tool_choice)

\* ------------------------------------------------------------------------
\* Upstream chunks (the shapes of tests/unit/test_model.py)
\* ------------------------------------------------------------------------

\* make_tool_call_delta
ToolCallDelta(index, tool_id, name, arguments) ==
    [index |-> index, id |-> tool_id, function |-> [name |-> name, arguments |-> arguments]]

\* make_stream_chunk: a delta without reasoning has no reasoning_content attribute.
StreamChunk(delta_content, delta_tool_calls, finish_reason, reasoning_content, usage) ==
    LET delta == IF reasoning_content # None
                 THEN [content |-> delta_content, tool_calls |-> delta_tool_calls,
                       reasoning_content |-> reasoning_content]
                 ELSE [content |-> delta_content, tool_calls |-> delta_tool_calls]
    IN [choices |-> << [delta |-> delta, finish_reason |-> finish_reason] >>, usage |-> usage]

Usage(prompt_tokens, completion_tokens, total_tokens) ==
    [prompt_tokens |-> prompt_tokens, completion_tokens |-> completion_tokens,
     total_tokens |-> total_tokens]

\* make_usage_chunk: no choices, usage set.
UsageChunk(usage) == [choices |-> << >>, usage |-> usage]

\* A keepalive chunk: no choices, no usage.
EmptyChunk == [choices |-> << >>, usage |-> NoneObj]

Calc0First == ToolCallDelta(0, "t0", "calc", "{\"expr\":")
Calc0Rest == ToolCallDelta(0, None, None, "\"2+2\"}")
Search1 == ToolCallDelta(1, "t1", "search", "{\"q\": \"a\"}")
Search1Null == ToolCallDelta(1, None, None, None)

Chunks ==
    { EmptyChunk,
      UsageChunk(Usage(10, 5, 15)),
      StreamChunk("Hello", NoneList, None, None, NoneObj),
      StreamChunk(None, NoneList, None, "Let me think", NoneObj),
      StreamChunk(None, ListOf(<<Calc0First>>), None, None, NoneObj),
      StreamChunk(None, ListOf(<<Calc0Rest>>), None, None, NoneObj),
      StreamChunk(None, ListOf(<<Search1, Calc0First>>), None, None, NoneObj),
      StreamChunk(" world", ListOf(<<Search1Null>>), None, "hm", NoneObj),
      StreamChunk(None, NoneList, "stop", None, NoneObj),
      StreamChunk("!", ListOf(<< >>), "length", None, Usage(7, 3, 10)),
      StreamChunk(None, ListOf(<<Calc0Rest>>), "tool_calls", None, NoneObj) }

\* The longest upstream stream the gateway returns.
MaxChunks == 3

RECURSIVE SeqsUpTo(_, _)
SeqsUpTo(S, n) ==
    IF n = 0 THEN { << >> }
    ELSE LET shorter == SeqsUpTo(S, n - 1)
         IN shorter \cup { Append(s, x) : s \in { t \in shorter : Len(t) = n - 1 }, x \in S }

Responses == SeqsUpTo(Chunks, MaxChunks)

\* ------------------------------------------------------------------------
\* Arguments of stream() and the configuration
\* ------------------------------------------------------------------------

CalcSpec ==
    [name |-> "calc", description |-> "Calculator",
     inputSchema |-> [json |-> [j |-> "obj", v |-> << <<"type", [j |-> "str", v |-> "object"]>> >>]]]

SearchSpec ==
    [name |-> "search", description |-> "Search",
     inputSchema |-> [json |-> [j |-> "obj", v |-> << >>]]]

UserHi == [role |-> "user", content |-> << [text |-> "Hi"] >>]

UserDocument ==
    [role |-> "user", content |-> << [text |-> "Read"], [document |-> [name |-> "a.pdf"]] >>]

\* A json block outside a tool result.
UserJson ==
    [role |-> "user", content |-> << [json |-> [j |-> "obj", v |-> << >>]] >>]

\* A tool result whose content holds a json block, a text block and a video block.
UserResultVideo ==
    [role |-> "user",
     content |-> << [text |-> "Done"],
                    [toolResult |->
                       [toolUseId |-> "t0",
                        content |-> << [json |-> [j |-> "obj", v |-> << >>]],
                                       [text |-> "4"],
                                       [video |-> [format |-> "mp4"]] >>]] >>]

CallArgs(messages, tool_specs, system_prompt, tool_choice, system_prompt_content) ==
    [messages |-> messages, tool_specs |-> tool_specs, system_prompt |-> system_prompt,
     tool_choice |-> tool_choice, system_prompt_content |-> system_prompt_content]

\* The calls of stream() that are run against the upstream streams.
StreamCalls ==
    { CallArgs(<<UserHi>>, ListOf(<<CalcSpec, SearchSpec>>), "Be helpful",
               [auto |-> EmptyDict], NoneList),
      CallArgs(<<UserDocument>>, NoneList, None, NoneObj, NoneList),
      CallArgs(<<UserHi, UserJson>>, NoneList, None, NoneObj, NoneList),
      CallArgs(<<UserHi, UserResultVideo>>, NoneList, None, NoneObj, NoneList) }

\* A model id is held as a sequence of characters, so that strip() is computed.
Gpt4o == <<"g", "p", "t", "-", "4", "o">>
Gpt35Turbo == <<"g", "p", "t", "-", "3", ".", "5", "-", "t", "u", "r", "b", "o">>
PaddedGpt4o == <<" ", "g", "p", "t", "-", "4", "o", "\n">>

\* The characters str.strip() removes.
WHITESPACE == {" ", "\t", "\n", "\r", "\f"}

RECURSIVE lstrip(_)
lstrip(s) == IF Len(s) > 0 /\ Head(s) \in WHITESPACE THEN lstrip(Tail(s)) ELSE s

RECURSIVE rstrip(_)
rstrip(s) ==
    IF Len(s) > 0 /\ s[Len(s)] \in WHITESPACE THEN rstrip(SubSeq(s, 1, Len(s) - 1)) ELSE s

\* str.strip()
strip(s) == rstrip(lstrip(s))

\* A validator that rejects the empty string only.
EmptyOnlyRejected(v) ==
    IF Len(v) = 0 THEN Raise([type |-> "ValueError", field |-> "model_id"]) ELSE Return(v)

\* _config.py lines 20-26: the validator of model_id.
model_id_not_empty(v) ==
    IF Len(strip(v)) = 0 THEN Raise([type |-> "ValueError", field |-> "model_id"]) ELSE Return(v)

\* A validated configuration object.
PortkeyConfig(model_id, params) == [model_id |-> model_id, params |-> params]

\* PortkeyConfig(**fields): model_id is required and validated, params defaults to None.
ValidatedConfig(fields) ==
    IF ~Has("model_id", fields)
    THEN Raise([type |-> "ValidationError", field |-> "model_id", error |-> "missing"])
    ELSE IF model_id_not_empty(fields.model_id).raises
    THEN Raise([type |-> "ValidationError", field |-> "model_id", error |-> "value_error"])
    ELSE Return(PortkeyConfig(fields.model_id,
                              IF Has("params", fields) THEN fields.params ELSE NoneObj))

\* config.model_dump(): the fields as a dict.
model_dump(c) == [model_id |-> c.model_id, params |-> c.params]

DefaultConfig == PortkeyConfig(Gpt4o, NoneObj)

\* ------------------------------------------------------------------------
\* model.py: PortkeyModel.stream, one generator per invocation
\* ------------------------------------------------------------------------

Invocations == {1, 2}

VARIABLES
    config,         \* self.config
    format_call,    \* the last direct call of format_request and its outcome
    config_call,    \* the last construction or update_config call and its outcome
    structured,     \* the invocation of structured_output
    upstream_error, \* per invocation: the exception its upstream stream raised
    call_args,      \* per invocation: the arguments stream() was called with
    pc,             \* per invocation: where the generator is suspended
    request,        \* per invocation: the request passed to the gateway
    gateway_calls,  \* per invocation: calls of client.chat.completions.create
    gateway_error,  \* per invocation: the exception that call raised, if it raised
    response,       \* per invocation: the upstream chunk stream
    pos,            \* per invocation: chunks read from response so far
    event,          \* per invocation: local variable event
    choice,         \* per invocation: local variable choice
    tool_calls,     \* per invocation: local dict tool_calls
    flush,          \* per invocation: position of the loops of lines 203-207
    events,         \* per invocation: the events the consumer has received
    raised          \* per invocation: the exception the consumer has received

vars == <<config, format_call, config_call, structured, upstream_error, call_args, pc, request, gateway_calls, gateway_error, response, pos, event, choice,
          tool_calls, flush, events, raised>>

\* A dict keeps its keys in insertion order.
EmptyOrderedDict == [keys |-> << >>, items |-> EmptyDict]

InDict(key, d) == \E k \in 1..Len(d.keys) : d.keys[k] = key

\* An accumulator that keeps only the last fragment of an index.
LastFragmentOnly(d, key, value) ==
    [keys |-> IF InDict(key, d) THEN d.keys ELSE Append(d.keys, key),
     items |-> (key :> <<value>>) @@ d.items]

\* d.setdefault(key, []).append(value)
SetDefaultAppend(d, key, value) ==
    IF InDict(key, d)
    THEN [d EXCEPT !.items[key] = Append(@, value)]
    ELSE [keys |-> Append(d.keys, key), items |-> (key :> <<value>>) @@ d.items]

\* d.values(): in insertion order of the keys
DictValues(d) == [k \in 1..Len(d.keys) |-> d.items[d.keys[k]]]

\* delta.tool_calls or []
ToolCallsOrEmpty(delta) == IF TruthyList(delta.tool_calls) THEN delta.tool_calls.list ELSE << >>

\* Lines 195-196: for tool_call in delta.tool_calls or []: setdefault(index, []).append
RECURSIVE Accumulate(_, _)
Accumulate(d, fragments) ==
    IF Len(fragments) = 0 THEN d
    ELSE Accumulate(SetDefaultAppend(d, Head(fragments).index, Head(fragments)), Tail(fragments))

\* hasattr(delta, "reasoning_content") and delta.reasoning_content
HasReasoning(delta) == Has("reasoning_content", delta) /\ Truthy(delta.reasoning_content)

NoFlush == [tool |-> 0, delta |-> 0]

\* No invocation of stream() has started.
NotInvoked ==
    /\ pc = [i \in Invocations |-> "idle"]
    /\ request = [i \in Invocations |-> NoneObj]
    /\ gateway_calls = [i \in Invocations |-> 0]
    /\ gateway_error = [i \in Invocations |-> NoneObj]
    /\ upstream_error = [i \in Invocations |-> NoneObj]
    /\ call_args = [i \in Invocations |-> NoneObj]
    /\ response = [i \in Invocations |-> << >>]
    /\ pos = [i \in Invocations |-> 0]
    /\ event = [i \in Invocations |-> Unbound]
    /\ choice = [i \in Invocations |-> Unbound]
    /\ tool_calls = [i \in Invocations |-> EmptyOrderedDict]
    /\ flush = [i \in Invocations |-> NoFlush]
    /\ events = [i \in Invocations |-> << >>]
    /\ raised = [i \in Invocations |-> NoneObj]

Init ==
    /\ config = DefaultConfig
    /\ format_call = NoneObj
    /\ config_call = NoneObj
    /\ structured = NoneObj
    /\ NotInvoked

\* yield `formatted`, the outcome of format_chunk, and suspend at `at`
YieldOutcome(i, formatted, at) ==
    IF formatted.raises
    THEN /\ raised' = [raised EXCEPT ![i] = formatted.exc]
         /\ pc' = [pc EXCEPT ![i] = "raised"]
         /\ UNCHANGED events
    ELSE /\ events' = [events EXCEPT ![i] = Append(@, formatted.value)]
         /\ pc' = [pc EXCEPT ![i] = at]
         /\ UNCHANGED raised

\* yield format_chunk(chunk) and suspend at `at`
Yield(i, chunk, at) == YieldOutcome(i, format_chunk(chunk), at)

\* Lines 161-166, given the outcome of format_request.
IssueCall(i, formatted) ==
    IF formatted.raises
    THEN /\ raised' = [raised EXCEPT ![i] = formatted.exc]
         /\ pc' = [pc EXCEPT ![i] = "raised"]
         /\ UNCHANGED <<request, gateway_calls>>
    ELSE /\ request' = [request EXCEPT ![i] = formatted.value]
         /\ gateway_calls' = [gateway_calls EXCEPT ![i] = @ + 1]
         /\ pc' = [pc EXCEPT ![i] = "create"]
         /\ UNCHANGED raised

\* Lines 160-166: the request is formatted and the gateway call is issued.
Invoke(i, calls) ==
    /\ pc[i] = "idle"
    /\ \E args \in calls :
        /\ call_args' = [call_args EXCEPT ![i] = args]
        /\ IssueCall(i, format_request(config, args.messages, args.tool_specs,
                                       args.system_prompt, args.tool_choice,
                                       args.system_prompt_content))
    /\ UNCHANGED <<config, format_call, config_call, structured, gateway_error, response, pos,
                   event, choice, tool_calls, flush, events, upstream_error>>

\* A handler that wraps the error the classifier declined.
WrapUnmatched(e, handled) ==
    IF handled.raises THEN handled.exc
    ELSE [type |-> "RuntimeError", message |-> e.message, cause |-> e]

\* except Exception as e: handle_api_error(e); raise
Reraised(e, handled) == IF handled.raises THEN handled.exc ELSE e

\* A stream that yields its MessageStart before it awaits the gateway call.
StartBeforeCall(i, errors) ==
    /\ pc[i] = "create"
    /\ \E e \in errors :
        /\ gateway_error' = [gateway_error EXCEPT ![i] = e]
        /\ raised' = [raised EXCEPT ![i] = Reraised(e, handle_api_error(e))]
    /\ events' = [events EXCEPT ![i] = Append(@, [messageStart |-> [role |-> "assistant"]])]
    /\ pc' = [pc EXCEPT ![i] = "raised"]
    /\ UNCHANGED <<config, format_call, config_call, structured, request, gateway_calls, response, pos, event, choice,
                   tool_calls, flush, upstream_error, call_args>>

\* A stream that issues the gateway call a second time before it gives up.
RetryOnFailure(i, errors) ==
    /\ pc[i] = "create"
    /\ \E e \in errors :
        /\ gateway_error' = [gateway_error EXCEPT ![i] = e]
        /\ raised' = [raised EXCEPT ![i] = Reraised(e, handle_api_error(e))]
    /\ gateway_calls' = [gateway_calls EXCEPT ![i] = @ + 1]
    /\ pc' = [pc EXCEPT ![i] = "raised"]
    /\ UNCHANGED <<config, format_call, config_call, structured, request, response, pos, event,
                   choice, tool_calls, flush, events, upstream_error, call_args>>

\* Lines 167-169: the gateway call raises one of `errors`.
GatewayRaises(i, errors) ==
    /\ pc[i] = "create"
    /\ \E e \in errors :
        /\ gateway_error' = [gateway_error EXCEPT ![i] = e]
        /\ raised' = [raised EXCEPT ![i] = Reraised(e, handle_api_error(e))]
    /\ pc' = [pc EXCEPT ![i] = "raised"]
    /\ UNCHANGED <<config, format_call, config_call, structured, request, gateway_calls, response, pos, event, choice,
                   tool_calls, flush, events, upstream_error, call_args>>

\* Lines 166-172: the gateway call returns one of the chunk streams `responses`.
GatewayReturns(i, responses) ==
    /\ pc[i] = "create"
    /\ \E r \in responses : response' = [response EXCEPT ![i] = r]
    /\ Yield(i, [chunk_type |-> "message_start"], "message_start")
    /\ UNCHANGED <<config, format_call, config_call, structured, request, gateway_calls, gateway_error, pos, event, choice,
                   tool_calls, flush, upstream_error, call_args>>

\* A stream that takes the model id of its payload from the configuration
\* again after the gateway call was issued.
ModelReadLate(i) ==
    /\ pc[i] = "message_start"
    /\ Yield(i, [chunk_type |-> "content_start", data_type |-> "text"], "content_start")
    /\ request' = [request EXCEPT ![i] = [@ EXCEPT !.model = config.model_id]]
    /\ UNCHANGED <<config, format_call, config_call, structured, upstream_error, call_args,
                   gateway_calls, gateway_error, response, pos, event, choice, tool_calls,
                   flush>>

\* A stream that opens no text block after its MessageStart.
TextBlockSkipped(i) ==
    /\ pc[i] = "message_start"
    /\ pc' = [pc EXCEPT ![i] = "content_start"]
    /\ UNCHANGED <<config, format_call, config_call, structured, request, gateway_calls,
                   gateway_error, response, pos, event, choice, tool_calls, flush, events,
                   raised, upstream_error, call_args>>

\* Line 173.
ResumeMessageStart(i) ==
    /\ pc[i] = "message_start"
    /\ Yield(i, [chunk_type |-> "content_start", data_type |-> "text"], "content_start")
    /\ UNCHANGED <<config, format_call, config_call, structured, request, gateway_calls, gateway_error, response, pos, event, choice,
                   tool_calls, flush, upstream_error, call_args>>

\* A stream that reads its whole upstream stream before its first delta.
WholeStreamBuffered(i) ==
    /\ pc[i] = "content_start"
    /\ tool_calls' = [tool_calls EXCEPT ![i] = EmptyOrderedDict]
    /\ pos' = [pos EXCEPT ![i] = Len(response[i])]
    /\ pc' = [pc EXCEPT ![i] = "await_chunk"]
    /\ UNCHANGED <<config, format_call, config_call, structured, upstream_error, request,
                   gateway_calls, gateway_error, response, event, choice, flush, events,
                   raised, call_args>>

\* Lines 175-177: the dict is created and the first chunk is awaited.
ResumeContentStart(i) ==
    /\ pc[i] = "content_start"
    /\ tool_calls' = [tool_calls EXCEPT ![i] = EmptyOrderedDict]
    /\ pc' = [pc EXCEPT ![i] = "await_chunk"]
    /\ UNCHANGED <<config, format_call, config_call, structured, request, gateway_calls, gateway_error, response, pos, event, choice,
                   flush, events, raised, upstream_error, call_args>>

\* A content loop that opens a tool block as soon as fragments arrive.
EagerToolStart(i, stage, ch) ==
    IF stage = "content" /\ Truthy(ch.delta.content) THEN
        /\ Yield(i, [chunk_type |-> "content_delta", data_type |-> "text",
                     data |-> ch.delta.content], "text_delta")
        /\ UNCHANGED tool_calls
    ELSE IF stage \in {"content", "reasoning"} /\ HasReasoning(ch.delta) THEN
        /\ Yield(i, [chunk_type |-> "content_delta", data_type |-> "reasoning_content",
                     data |-> ch.delta.reasoning_content], "reasoning_delta")
        /\ UNCHANGED tool_calls
    ELSE
        /\ tool_calls' = [tool_calls EXCEPT ![i] = Accumulate(@, ToolCallsOrEmpty(ch.delta))]
        /\ IF Truthy(ch.finish_reason)
           THEN Yield(i, [chunk_type |-> "content_stop", data_type |-> "text"], "content_stop")
           ELSE IF Len(ToolCallsOrEmpty(ch.delta)) > 0
           THEN Yield(i, [chunk_type |-> "content_start", data_type |-> "tool",
                          data |-> ToolCallsOrEmpty(ch.delta)[1]], "await_chunk")
           ELSE /\ pc' = [pc EXCEPT ![i] = "await_chunk"]
                /\ UNCHANGED <<events, raised>>

\* A content loop that does not stop at the chunk that declares a finish reason.
FinishIgnored(i, stage, ch) ==
    IF stage = "content" /\ Truthy(ch.delta.content) THEN
        /\ Yield(i, [chunk_type |-> "content_delta", data_type |-> "text",
                     data |-> ch.delta.content], "text_delta")
        /\ UNCHANGED tool_calls
    ELSE IF stage \in {"content", "reasoning"} /\ HasReasoning(ch.delta) THEN
        /\ Yield(i, [chunk_type |-> "content_delta", data_type |-> "reasoning_content",
                     data |-> ch.delta.reasoning_content], "reasoning_delta")
        /\ UNCHANGED tool_calls
    ELSE
        /\ tool_calls' = [tool_calls EXCEPT ![i] = Accumulate(@, ToolCallsOrEmpty(ch.delta))]
        /\ pc' = [pc EXCEPT ![i] = "await_chunk"]
        /\ UNCHANGED <<events, raised>>

\* A content loop whose accumulator is one dict shared by the invocations: the
\* fragments go into the dict of every invocation.
SharedAccumulator(i, stage, ch) ==
    IF stage = "content" /\ Truthy(ch.delta.content) THEN
        /\ Yield(i, [chunk_type |-> "content_delta", data_type |-> "text",
                     data |-> ch.delta.content], "text_delta")
        /\ UNCHANGED tool_calls
    ELSE IF stage \in {"content", "reasoning"} /\ HasReasoning(ch.delta) THEN
        /\ Yield(i, [chunk_type |-> "content_delta", data_type |-> "reasoning_content",
                     data |-> ch.delta.reasoning_content], "reasoning_delta")
        /\ UNCHANGED tool_calls
    ELSE
        /\ tool_calls' = [j \in Invocations |->
                             Accumulate(tool_calls[j], ToolCallsOrEmpty(ch.delta))]
        /\ IF Truthy(ch.finish_reason)
           THEN Yield(i, [chunk_type |-> "content_stop", data_type |-> "text"], "content_stop")
           ELSE /\ pc' = [pc EXCEPT ![i] = "await_chunk"]
                /\ UNCHANGED <<events, raised>>

\* Lines 183-201 from `stage` on, for the chunk whose choice is ch: what is yielded
\* next, or the next await.
ChunkBody(i, stage, ch) ==
    IF stage = "content" /\ Truthy(ch.delta.content) THEN
        /\ Yield(i, [chunk_type |-> "content_delta", data_type |-> "text",
                     data |-> ch.delta.content], "text_delta")
        /\ UNCHANGED tool_calls
    ELSE IF stage \in {"content", "reasoning"} /\ HasReasoning(ch.delta) THEN
        /\ Yield(i, [chunk_type |-> "content_delta", data_type |-> "reasoning_content",
                     data |-> ch.delta.reasoning_content], "reasoning_delta")
        /\ UNCHANGED tool_calls
    ELSE
        /\ tool_calls' = [tool_calls EXCEPT ![i] = Accumulate(@, ToolCallsOrEmpty(ch.delta))]
        /\ IF Truthy(ch.finish_reason)
           THEN Yield(i, [chunk_type |-> "content_stop", data_type |-> "text"], "content_stop")
           ELSE /\ pc' = [pc EXCEPT ![i] = "await_chunk"]
                /\ UNCHANGED <<events, raised>>

\* A content loop that a chunk without choices brings to its end.
KeepaliveEnds(i) ==
    /\ pc[i] = "await_chunk"
    /\ pos[i] < Len(response[i])
    /\ LET e == response[i][pos[i] + 1] IN
       /\ event' = [event EXCEPT ![i] = e]
       /\ pos' = [pos EXCEPT ![i] = @ + 1]
       /\ IF Len(e.choices) = 0
          THEN /\ Yield(i, [chunk_type |-> "content_stop", data_type |-> "text"], "content_stop")
               /\ UNCHANGED <<choice, tool_calls>>
          ELSE /\ choice' = [choice EXCEPT ![i] = e.choices[1]]
               /\ ChunkBody(i, "content", e.choices[1])
    /\ UNCHANGED <<config, format_call, config_call, structured, request, gateway_calls,
                   gateway_error, response, flush, upstream_error, call_args>>

\* Lines 177-181: the content loop receives the next chunk.
ContentChunk(i) ==
    /\ pc[i] = "await_chunk"
    /\ pos[i] < Len(response[i])
    /\ LET e == response[i][pos[i] + 1] IN
       /\ event' = [event EXCEPT ![i] = e]
       /\ pos' = [pos EXCEPT ![i] = @ + 1]
       /\ IF Len(e.choices) = 0
          THEN UNCHANGED <<pc, choice, tool_calls, events, raised>>
          ELSE /\ choice' = [choice EXCEPT ![i] = e.choices[1]]
               /\ ChunkBody(i, "content", e.choices[1])
    /\ UNCHANGED <<config, format_call, config_call, structured, request, gateway_calls, gateway_error, response, flush,
                   upstream_error, call_args>>

\* Lines 177, 201: the upstream stream ends inside the content loop.
ContentExhausted(i) ==
    /\ pc[i] = "await_chunk"
    /\ pos[i] = Len(response[i])
    /\ Yield(i, [chunk_type |-> "content_stop", data_type |-> "text"], "content_stop")
    /\ UNCHANGED <<config, format_call, config_call, structured, request, gateway_calls, gateway_error, response, pos, event, choice,
                   tool_calls, flush, upstream_error, call_args>>

\* Line 186 onwards, after the text delta was taken.
ResumeTextDelta(i) ==
    /\ pc[i] = "text_delta"
    /\ ChunkBody(i, "reasoning", choice[i])
    /\ UNCHANGED <<config, format_call, config_call, structured, request, gateway_calls, gateway_error, response, pos, event, choice, flush,
                   upstream_error, call_args>>

\* Line 195 onwards, after the reasoning delta was taken.
ResumeReasoningDelta(i) ==
    /\ pc[i] = "reasoning_delta"
    /\ ChunkBody(i, "tools", choice[i])
    /\ UNCHANGED <<config, format_call, config_call, structured, request, gateway_calls, gateway_error, response, pos, event, choice, flush,
                   upstream_error, call_args>>

\* raise UnboundLocalError: the local `name` is read before any assignment.
RaiseUnbound(i, name) ==
    /\ raised' = [raised EXCEPT ![i] = [type |-> "UnboundLocalError", name |-> name]]
    /\ pc' = [pc EXCEPT ![i] = "raised"]
    /\ UNCHANGED events

\* Line 209.
MessageStop(i) ==
    IF IsUnbound(choice[i])
    THEN RaiseUnbound(i, "choice")
    ELSE Yield(i, [chunk_type |-> "message_stop", data |-> choice[i].finish_reason],
               "message_stop")

\* Line 204: the block of the k-th value of tool_calls is opened.
ToolStart(i, k) ==
    /\ Yield(i, [chunk_type |-> "content_start", data_type |-> "tool",
                 data |-> DictValues(tool_calls[i])[k][1]], "tool_start")
    /\ flush' = [flush EXCEPT ![i] = [tool |-> k, delta |-> 0]]

\* A stream that emits its MessageStop before it flushes the tool calls.
StopBeforeTools(i) ==
    /\ pc[i] = "content_stop"
    /\ IF IsUnbound(choice[i])
       THEN RaiseUnbound(i, "choice")
       ELSE Yield(i, [chunk_type |-> "message_stop", data |-> choice[i].finish_reason],
                  "tool_stop")
    /\ UNCHANGED <<config, format_call, config_call, structured, request, gateway_calls, gateway_error, response, pos,
                   event, choice, tool_calls, flush, upstream_error, call_args>>

\* Lines 203-209, after the stop of the text block was taken.
ResumeContentStop(i) ==
    /\ pc[i] = "content_stop"
    /\ IF Len(DictValues(tool_calls[i])) > 0
       THEN ToolStart(i, 1)
       ELSE MessageStop(i) /\ UNCHANGED flush
    /\ UNCHANGED <<config, format_call, config_call, structured, request, gateway_calls, gateway_error, response, pos, event, choice, tool_calls,
                   upstream_error, call_args>>

\* Lines 205-206: the first delta of the open tool block.
ResumeToolStart(i) ==
    /\ pc[i] = "tool_start"
    /\ Yield(i, [chunk_type |-> "content_delta", data_type |-> "tool",
                 data |-> DictValues(tool_calls[i])[flush[i].tool][1]], "tool_delta")
    /\ flush' = [flush EXCEPT ![i].delta = 1]
    /\ UNCHANGED <<config, format_call, config_call, structured, request, gateway_calls, gateway_error, response, pos, event, choice, tool_calls,
                   upstream_error, call_args>>

\* Lines 205-207: the next delta of the open tool block, or its stop.
ResumeToolDelta(i) ==
    /\ pc[i] = "tool_delta"
    /\ LET tool_deltas == DictValues(tool_calls[i])[flush[i].tool] IN
       IF flush[i].delta < Len(tool_deltas)
       THEN /\ Yield(i, [chunk_type |-> "content_delta", data_type |-> "tool",
                         data |-> tool_deltas[flush[i].delta + 1]], "tool_delta")
            /\ flush' = [flush EXCEPT ![i].delta = @ + 1]
       ELSE /\ Yield(i, [chunk_type |-> "content_stop", data_type |-> "tool"], "tool_stop")
            /\ UNCHANGED flush
    /\ UNCHANGED <<config, format_call, config_call, structured, request, gateway_calls, gateway_error, response, pos, event, choice, tool_calls,
                   upstream_error, call_args>>

\* Lines 203-209, after the stop of a tool block was taken.
ResumeToolStop(i) ==
    /\ pc[i] = "tool_stop"
    /\ IF flush[i].tool < Len(DictValues(tool_calls[i]))
       THEN ToolStart(i, flush[i].tool + 1)
       ELSE MessageStop(i) /\ UNCHANGED flush
    /\ UNCHANGED <<config, format_call, config_call, structured, request, gateway_calls, gateway_error, response, pos, event, choice, tool_calls,
                   upstream_error, call_args>>

\* Line 211: the second loop awaits its first chunk.
ResumeMessageStop(i) ==
    /\ pc[i] = "message_stop"
    /\ pc' = [pc EXCEPT ![i] = "await_trailing"]
    /\ UNCHANGED <<config, format_call, config_call, structured, request, gateway_calls, gateway_error, response, pos, event, choice,
                   tool_calls, flush, events, raised, upstream_error, call_args>>

\* Lines 211-212: a chunk after the content phase is read and kept in `event`.
TrailingChunk(i) ==
    /\ pc[i] = "await_trailing"
    /\ pos[i] < Len(response[i])
    /\ event' = [event EXCEPT ![i] = response[i][pos[i] + 1]]
    /\ pos' = [pos EXCEPT ![i] = @ + 1]
    /\ UNCHANGED <<config, format_call, config_call, structured, pc, request, gateway_calls, gateway_error, response, choice,
                   tool_calls, flush, events, raised, upstream_error, call_args>>

\* Lines 211-217: the upstream stream ends; the usage of the last chunk read.
TrailingExhausted(i) ==
    /\ pc[i] = "await_trailing"
    /\ pos[i] = Len(response[i])
    /\ IF IsUnbound(event[i])
       THEN RaiseUnbound(i, "event")
       ELSE IF ~IsNoneObj(event[i].usage)
       THEN Yield(i, [chunk_type |-> "metadata", data |-> event[i].usage], "metadata")
       ELSE /\ pc' = [pc EXCEPT ![i] = "done"]
            /\ UNCHANGED <<events, raised>>
    /\ UNCHANGED <<config, format_call, config_call, structured, request, gateway_calls, gateway_error, response, pos, event, choice,
                   tool_calls, flush, upstream_error, call_args>>

\* Line 217: the generator returns after the metadata event was taken.
ResumeMetadata(i) ==
    /\ pc[i] = "metadata"
    /\ pc' = [pc EXCEPT ![i] = "done"]
    /\ UNCHANGED <<config, format_call, config_call, structured, request, gateway_calls, gateway_error, response, pos, event, choice,
                   tool_calls, flush, events, raised, upstream_error, call_args>>

\* One invocation of stream() against every upstream behaviour.
Next ==
    \/ Invoke(1, StreamCalls)
    \/ GatewayRaises(1, ApiErrors)
    \/ GatewayReturns(1, Responses)
    \/ ResumeMessageStart(1)
    \/ ResumeContentStart(1)
    \/ ContentChunk(1)
    \/ ContentExhausted(1)
    \/ ResumeTextDelta(1)
    \/ ResumeReasoningDelta(1)
    \/ ResumeContentStop(1)
    \/ ResumeToolStart(1)
    \/ ResumeToolDelta(1)
    \/ ResumeToolStop(1)
    \/ ResumeMessageStop(1)
    \/ TrailingChunk(1)
    \/ TrailingExhausted(1)
    \/ ResumeMetadata(1)

Spec == Init /\ [][Next]_vars

\* The exceptions the upstream stream raises while it is consumed.
StreamErrors ==
    { [type |-> "Exception", message |-> m] : m \in {MsgDiskFull, MsgRateLimit, MsgPromptCaps} }

\* Invocation i awaits a chunk of a stream that has not ended: in the content
\* loop, or in the drain loop when the content loop was left by its break.
StillOpen(i) ==
    \/ pc[i] = "await_chunk"
    \/ pc[i] = "await_trailing" /\ Truthy(choice[i].finish_reason)

\* An upstream stream whose exceptions go through the classifier.
UpstreamClassified(i, errors) ==
    /\ StillOpen(i)
    /\ pos[i] = Len(response[i])
    /\ \E e \in errors :
        /\ upstream_error' = [upstream_error EXCEPT ![i] = e]
        /\ raised' = [raised EXCEPT ![i] = Reraised(e, handle_api_error(e))]
    /\ pc' = [pc EXCEPT ![i] = "raised"]
    /\ UNCHANGED <<config, format_call, config_call, structured, request, gateway_calls,
                   gateway_error, response, pos, event, choice, tool_calls, flush, events,
                   call_args>>

\* Lines 177 and 211: after the chunks of response[i] the upstream stream
\* raises one of `errors` instead of ending; no handler encloses the loops.
UpstreamRaises(i, errors) ==
    /\ StillOpen(i)
    /\ pos[i] = Len(response[i])
    /\ \E e \in errors :
        /\ upstream_error' = [upstream_error EXCEPT ![i] = e]
        /\ raised' = [raised EXCEPT ![i] = e]
    /\ pc' = [pc EXCEPT ![i] = "raised"]
    /\ UNCHANGED <<config, format_call, config_call, structured, request, gateway_calls,
                   gateway_error, response, pos, event, choice, tool_calls, flush, events,
                   call_args>>

NextUpstream ==
    \/ Next
    \/ UpstreamRaises(1, StreamErrors)

\* One invocation of stream() whose upstream stream may raise.
SpecUpstream == Init /\ [][NextUpstream]_vars

\* The positions at which the generator is suspended at a yield.
YIELDS ==
    { "message_start", "content_start", "text_delta", "reasoning_delta", "content_stop",
      "tool_start", "tool_delta", "tool_stop", "message_stop", "metadata" }

\* The consumer stops iterating: the generator, suspended at a yield, is closed
\* there; stream() has no finally clause, so nothing more of it runs.
ConsumerStops(i) ==
    /\ pc[i] \in YIELDS
    /\ pc' = [pc EXCEPT ![i] = "closed"]
    /\ UNCHANGED <<config, format_call, config_call, structured, upstream_error, request,
                   gateway_calls, gateway_error, response, pos, event, choice, tool_calls,
                   flush, events, raised, call_args>>

NextConsumer ==
    \/ Next
    \/ ConsumerStops(1)

\* One invocation of stream() whose consumer may stop iterating.
SpecConsumer == Init /\ [][NextConsumer]_vars

\* The fields update_config is called with while a stream is in flight.
Reconfigurations ==
    { [model_id |-> Gpt35Turbo], [params |-> [temperature |-> 1]], [model_id |-> <<" ">>] }

\* The longest upstream stream of two interleaved invocations.
MaxInterleaved == 2

\* A chunk with text, reasoning and the first fragments of two tool calls, and
\* a chunk that ends the content phase with a further fragment and usage.
InterleavedChunks ==
    { StreamChunk(" world", ListOf(<<Search1, Calc0First>>), None, "hm", NoneObj),
      StreamChunk(None, ListOf(<<Calc0Rest>>), "tool_calls", None, Usage(7, 3, 10)) }

InterleavedResponses == SeqsUpTo(InterleavedChunks, MaxInterleaved)

InterleavedErrors == { [type |-> "Exception", message |-> m] : m \in {MsgDiskFull, MsgRateLimit} }

\* Two invocations of stream() on one adapter: the event loop resumes either
\* of them at each of its awaits and yields.
NextConcurrent ==
    \E i \in Invocations :
        \/ Invoke(i, StreamCalls)
        \/ GatewayRaises(i, InterleavedErrors)
        \/ GatewayReturns(i, InterleavedResponses)
        \/ ResumeMessageStart(i)
        \/ ResumeContentStart(i)
        \/ ContentChunk(i)
        \/ ContentExhausted(i)
        \/ ResumeTextDelta(i)
        \/ ResumeReasoningDelta(i)
        \/ ResumeContentStop(i)
        \/ ResumeToolStart(i)
        \/ ResumeToolDelta(i)
        \/ ResumeToolStop(i)
        \/ ResumeMessageStop(i)
        \/ TrailingChunk(i)
        \/ TrailingExhausted(i)
        \/ ResumeMetadata(i)

SpecConcurrent == Init /\ [][NextConcurrent]_vars

\* ------------------------------------------------------------------------
\* model.py: PortkeyModel.format_request called on its own
\* ------------------------------------------------------------------------

ToolSpecLists == { NoneList, ListOf(<< >>), ListOf(<<CalcSpec>>), ListOf(<<CalcSpec, SearchSpec>>) }

ToolChoices ==
    { NoneObj, [auto |-> EmptyDict], [any |-> EmptyDict], [tool |-> [name |-> "calc"]],
      [unknown |-> EmptyDict] }

\* Content blocks of host messages.
TextBlock(text) == [text |-> text]

ImageBlock(format, bytes) == [image |-> [format |-> format, source |-> [bytes |-> bytes]]]

ToolUseBlock(tool_use_id, name, input) ==
    [toolUse |-> [toolUseId |-> tool_use_id, name |-> name, input |-> input]]

ToolResultBlock(tool_use_id, content) ==
    [toolResult |-> [toolUseId |-> tool_use_id, content |-> content]]

JsonObject(pairs) == [j |-> "obj", v |-> pairs]

JsonInt(n) == [j |-> "int", v |-> n]

\* Host messages: text, an image, tool uses alone and with text, tool results
\* alone, with text, with json, with no content, and a message with no block.
AssistantCalls ==
    [role |-> "assistant",
     content |-> << TextBlock("Let me calculate that."),
                    ToolUseBlock("t0", "calc", JsonObject(<< <<"x", JsonInt(1)>> >>)),
                    ToolUseBlock("t1", "search", JsonObject(<< >>)) >>]

AssistantCallOnly ==
    [role |-> "assistant", content |-> << ToolUseBlock("t0", "calc", JsonObject(<< >>)) >>]

UserResults ==
    [role |-> "user",
     content |-> << ToolResultBlock("t0", << [json |-> JsonObject(<< <<"result", JsonInt(42)>> >>)] >>),
                    TextBlock("Thanks, now summarize."),
                    ToolResultBlock("t1", << TextBlock("found it"), TextBlock("twice") >>) >>]

UserResultOnly ==
    [role |-> "user", content |-> << ToolResultBlock("t0", << TextBlock("result: 42") >>) >>]

UserEmptyResult == [role |-> "user", content |-> << ToolResultBlock("t0", << >>) >>]

UserImage ==
    [role |-> "user", content |-> << TextBlock("Look"), ImageBlock("png", <<137, 80, 78, 71>>) >>]

UserNoBlock == [role |-> "user", content |-> << >>]

MessageLists ==
    { << >>,
      <<UserHi>>,
      <<UserImage>>,
      <<UserHi, AssistantCalls, UserResults>>,
      <<UserHi, AssistantCallOnly, UserResultOnly>>,
      <<AssistantCallOnly, UserEmptyResult, UserHi>>,
      <<UserNoBlock, UserHi>>,
      <<UserHi, UserDocument>> }

CachePoint == [cachePoint |-> [type |-> "default"]]

SystemContents ==
    { NoneList,
      ListOf(<< >>),
      ListOf(<< TextBlock("This takes precedence.") >>),
      ListOf(<< TextBlock("Important context."), CachePoint, TextBlock("More context.") >>),
      ListOf(<< CachePoint >>),
      ListOf(<< CachePoint, CachePoint >>) }

FormatCalls ==
    { CallArgs(<<UserHi>>, tool_specs, system_prompt, tool_choice, NoneList) :
        tool_specs \in ToolSpecLists, system_prompt \in {None, "Be helpful"},
        tool_choice \in ToolChoices }
    \cup
    { CallArgs(messages, NoneList, system_prompt, NoneObj, system_prompt_content) :
        messages \in MessageLists, system_prompt \in {None, "Be helpful"},
        system_prompt_content \in SystemContents }

\* The params a configuration carries: a dict of any keys, or None.
ParamsMaps ==
    { NoneObj, EmptyDict,
      [temperature |-> 1, max_tokens |-> 100],
      [tool_choice |-> [str |-> "required"]],
      [tools |-> FormatTools(<<SearchSpec>>)],
      [model |-> Gpt35Turbo, stream |-> FALSE] }

Configs == { PortkeyConfig(Gpt4o, params) : params \in ParamsMaps }

InitFormat ==
    /\ config \in Configs
    /\ format_call = NoneObj
    /\ config_call = NoneObj
    /\ structured = NoneObj
    /\ NotInvoked

\* self.format_request(...) with one of `calls` as its arguments; the method
\* keeps no state, so one call is followed per behaviour.
FormatRequest(calls) ==
    /\ IsNoneObj(format_call)
    /\ \E args \in calls :
        format_call' =
            [args |-> args,
             outcome |-> format_request(config, args.messages, args.tool_specs,
                                        args.system_prompt, args.tool_choice,
                                        args.system_prompt_content)]
    /\ UNCHANGED <<config, config_call, structured, pc, request, gateway_calls, gateway_error,
                   response, pos, event, choice, tool_calls, flush, events, raised,
                   upstream_error, call_args>>

NextFormat == FormatRequest(FormatCalls)

\* format_request applied to every call under every configuration.
SpecFormat == InitFormat /\ [][NextFormat]_vars

\* ------------------------------------------------------------------------
\* model.py: PortkeyModel.__init__ and update_config
\* ------------------------------------------------------------------------

ModelIds == { Gpt4o, Gpt35Turbo, PaddedGpt4o, << >>, <<" ">>, <<"\t", " ", "\n">> }

ParamsGiven == { NoneObj, [temperature |-> 1], [max_tokens |-> 100] }

\* The keyword arguments **model_config: any subset of the two fields.
ModelConfigs ==
    { EmptyDict }
    \cup { [model_id |-> model_id] : model_id \in ModelIds }
    \cup { [params |-> params] : params \in ParamsGiven }
    \cup { [model_id |-> model_id, params |-> params] :
              model_id \in ModelIds, params \in ParamsGiven }

\* No adapter has been constructed.
InitConfig ==
    /\ config = NoneObj
    /\ format_call = NoneObj
    /\ config_call = NoneObj
    /\ structured = NoneObj
    /\ NotInvoked

\* An assignment that stores the merged fields even when they fail validation.
AssignUnvalidated(op, model_config, validated) ==
    /\ config' = IF ~validated.raises THEN validated.value
                 ELSE IF IsNoneObj(config) THEN config
                 ELSE Merge(model_dump(config), model_config)
    /\ config_call' = [op |-> op, model_config |-> model_config, before |-> config,
                       outcome |-> validated]

\* self.config = <validated>: the assignment happens only when validation succeeds.
AssignConfig(op, model_config, validated) ==
    /\ config' = IF validated.raises THEN config ELSE validated.value
    /\ config_call' = [op |-> op, model_config |-> model_config, before |-> config,
                       outcome |-> validated]

\* Line 55: PortkeyModel(**model_config).
Construct(model_configs) ==
    /\ IsNoneObj(config)
    /\ \E model_config \in model_configs :
        AssignConfig("__init__", model_config, ValidatedConfig(model_config))
    /\ UNCHANGED <<format_call, structured, pc, request, gateway_calls, gateway_error,
                   response, pos, event, choice, tool_calls, flush, events, raised,
                   upstream_error, call_args>>

\* Line 72: update_config(**model_config).
UpdateConfig(model_configs) ==
    /\ ~IsNoneObj(config)
    /\ \E model_config \in model_configs :
        AssignConfig("update_config", model_config,
                     ValidatedConfig(Merge(model_dump(config), model_config)))
    /\ UNCHANGED <<format_call, structured, pc, request, gateway_calls, gateway_error,
                   response, pos, event, choice, tool_calls, flush, events, raised,
                   upstream_error, call_args>>

NextConfig == Construct(ModelConfigs) \/ UpdateConfig(ModelConfigs)

\* Constructions and updates of the configuration.
SpecConfig == InitConfig /\ [][NextConfig]_vars

\* ------------------------------------------------------------------------
\* model.py: update_config while a stream is in flight
\* ------------------------------------------------------------------------

\* Invocation 1 runs to its end, update_config is called at any of its
\* suspension points, and invocation 2 builds its request at any time.
NextReconfigure ==
    \/ Invoke(1, StreamCalls)
    \/ Invoke(2, StreamCalls)
    \/ UpdateConfig(Reconfigurations)
    \/ GatewayRaises(1, InterleavedErrors)
    \/ GatewayReturns(1, InterleavedResponses)
    \/ ResumeMessageStart(1)
    \/ ResumeContentStart(1)
    \/ ContentChunk(1)
    \/ ContentExhausted(1)
    \/ ResumeTextDelta(1)
    \/ ResumeReasoningDelta(1)
    \/ ResumeContentStop(1)
    \/ ResumeToolStart(1)
    \/ ResumeToolDelta(1)
    \/ ResumeToolStop(1)
    \/ ResumeMessageStop(1)
    \/ TrailingChunk(1)
    \/ TrailingExhausted(1)
    \/ ResumeMetadata(1)

SpecReconfigure == Init /\ [][NextReconfigure]_vars

\* ------------------------------------------------------------------------
\* model.py: PortkeyModel.structured_output
\* ------------------------------------------------------------------------

\* The greatest number of choices in a parse response.
MaxChoices == 2

\* The schema classes: Person is a plain BaseModel; Tags is a BaseModel that
\* defines __len__ as the number of its tags.
OutputModels == {"Person", "Tags"}

Instance(class, fields) == [class |-> class, fields |-> fields]

PersonAlice == Instance("Person", [name |-> "Alice"])
TagsTwo == Instance("Tags", [tags |-> <<"a", "b">>])
TagsEmpty == Instance("Tags", [tags |-> << >>])

\* choice.message.parsed: an instance, or None when the content did not parse.
ParsedValues == { NoneObj, PersonAlice, TagsTwo, TagsEmpty }

ParseChoice(parsed) == [message |-> [parsed |-> parsed]]

ParseResponses ==
    { [choices |-> choices] :
        choices \in SeqsUpTo({ ParseChoice(parsed) : parsed \in ParsedValues }, MaxChoices) }

\* isinstance(value, output_model)
isinstance(value, output_model) == ~IsNoneObj(value) /\ value.class = output_model

\* The truth value of an object: None is false, an object whose class defines
\* __len__ is true when its length is not zero, any other object is true.
bool(value) ==
    IF IsNoneObj(value) THEN FALSE
    ELSE IF value.class = "Tags" THEN Len(value.fields.tags) > 0
    ELSE TRUE

\* Lines 244-247: the parsed payload of the first choice that is an instance.
RECURSIVE FirstInstance(_, _)
FirstInstance(choices, output_model) ==
    IF Len(choices) = 0 THEN NoneObj
    ELSE IF isinstance(Head(choices).message.parsed, output_model)
    THEN Head(choices).message.parsed
    ELSE FirstInstance(Tail(choices), output_model)

MultipleChoicesError ==
    [type |-> "ValueError", message |-> "Multiple choices found in the response."]

NoValidOutputError ==
    [type |-> "ValueError",
     message |-> "No valid structured output was found in the response."]

\* Line 249: if parsed.
ParsedAccepted(parsed) == bool(parsed)

\* Lines 240-252: what the generator does with the response, up to its yield.
Extracted(parse_response, output_model) ==
    IF Len(parse_response.choices) > 1 THEN Raise(MultipleChoicesError)
    ELSE IF ParsedAccepted(FirstInstance(parse_response.choices, output_model))
    THEN Return(<< [output |-> FirstInstance(parse_response.choices, output_model)] >>)
    ELSE Raise(NoValidOutputError)

StructuredArgs(output_model, prompt, system_prompt) ==
    [output_model |-> output_model, prompt |-> prompt, system_prompt |-> system_prompt]

StructuredCalls ==
    { StructuredArgs(output_model, prompt, system_prompt) :
        output_model \in OutputModels,
        prompt \in MessageLists \cup { <<UserDocument>> },
        system_prompt \in { None, "Be helpful" } }

\* The errors the parse call raises.
ParseErrors == { [type |-> "Exception", message |-> m] : m \in {MsgDiskFull, MsgRateLimit} }

StructuredState(at, args, parse_request, parse_response, emitted, exc) ==
    [pc |-> at, args |-> args, request |-> parse_request, response |-> parse_response,
     events |-> emitted, raised |-> exc]

\* Lines 234-238: the arguments of the parse call are built; format_request
\* may raise before the call is made.
ParseCall(args, formatted) ==
    IF formatted.raises
    THEN StructuredState("raised", args, NoneObj, NoneObj, << >>, formatted.exc)
    ELSE StructuredState("parse", args,
                         [model |-> config.model_id, messages |-> formatted.value.messages,
                          response_format |-> args.output_model],
                         NoneObj, << >>, NoneObj)

StructuredUnchanged ==
    UNCHANGED <<config, format_call, config_call, pc, request, gateway_calls, gateway_error,
                response, pos, event, choice, tool_calls, flush, events, raised, upstream_error,
                   call_args>>

\* The first resumption of the generator of structured_output.
StructuredInvoke(calls) ==
    /\ IsNoneObj(structured)
    /\ \E args \in calls :
        structured' = ParseCall(args, format_request(config, args.prompt, NoneList,
                                                     args.system_prompt, NoneObj, NoneList))
    /\ StructuredUnchanged

\* The parse call raises: the exception leaves the generator as it is.
ParseRaises(errors) ==
    /\ ~IsNoneObj(structured)
    /\ structured.pc = "parse"
    /\ \E e \in errors :
        structured' = [structured EXCEPT !.pc = "raised", !.raised = e]
    /\ StructuredUnchanged

Resolved(parse_response, extracted) ==
    IF extracted.raises
    THEN [structured EXCEPT !.pc = "raised", !.response = parse_response,
                            !.raised = extracted.exc]
    ELSE [structured EXCEPT !.pc = "output", !.response = parse_response,
                            !.events = extracted.value]

\* The parse call returns: the generator runs to its yield or to its raise.
ParseReturns(parse_responses) ==
    /\ ~IsNoneObj(structured)
    /\ structured.pc = "parse"
    /\ \E parse_response \in parse_responses :
        structured' = Resolved(parse_response,
                               Extracted(parse_response, structured.args.output_model))
    /\ StructuredUnchanged

\* The generator is resumed after its yield and ends.
ResumeOutput ==
    /\ ~IsNoneObj(structured)
    /\ structured.pc = "output"
    /\ structured' = [structured EXCEPT !.pc = "done"]
    /\ StructuredUnchanged

NextStructured ==
    \/ StructuredInvoke(StructuredCalls)
    \/ ParseRaises(ParseErrors)
    \/ ParseReturns(ParseResponses)
    \/ ResumeOutput

\* One invocation of structured_output on the default adapter.
SpecStructured == Init /\ [][NextStructured]_vars

\* ------------------------------------------------------------------------
\* Properties of the emitted event sequence
\* ------------------------------------------------------------------------

IsMessageStart(e) == Has("messageStart", e)
IsBlockStart(e) == Has("contentBlockStart", e)
IsBlockDelta(e) == Has("contentBlockDelta", e)
IsBlockStop(e) == Has("contentBlockStop", e)
IsMessageStop(e) == Has("messageStop", e)
IsMetadata(e) == Has("metadata", e)
IsContentEvent(e) == IsBlockStart(e) \/ IsBlockDelta(e) \/ IsBlockStop(e)

IsToolStart(e) == IsBlockStart(e) /\ Has("toolUse", e.contentBlockStart.start)
IsToolDelta(e) == IsBlockDelta(e) /\ Has("toolUse", e.contentBlockDelta.delta)
IsTextDelta(e) == IsBlockDelta(e) /\ Has("text", e.contentBlockDelta.delta)
IsReasoningDelta(e) == IsBlockDelta(e) /\ Has("reasoningContent", e.contentBlockDelta.delta)
IsToolEvent(e) == IsToolStart(e) \/ IsToolDelta(e)

\* The positions of ev whose event satisfies P.
Positions(ev, P(_)) == { k \in 1..Len(ev) : P(ev[k]) }

\* The number of events before position k that satisfy P.
CountBefore(ev, k, P(_)) == Cardinality({ j \in 1..(k - 1) : P(ev[j]) })

\* stream() has returned: the consumer received StopAsyncIteration.
Completed(i) == pc[i] = "done"

\* C1: when stream() completes, MessageStart is the first event, every
\* ContentBlockStart / ContentBlockDelta / ContentBlockStop comes before the
\* MessageStop, and a Metadata event, if there is one, is the last event.
C1_EventOrder ==
    \A i \in Invocations :
        Completed(i) =>
            /\ Len(events[i]) > 0
            /\ IsMessageStart(events[i][1])
            /\ \A j \in Positions(events[i], IsContentEvent) :
                   \A k \in Positions(events[i], IsMessageStop) : j < k
            /\ \A k \in Positions(events[i], IsMetadata) : k = Len(events[i])

\* A completed stream with text, a tool block and a final Metadata event.
C1_Witness ==
    /\ Completed(1)
    /\ Positions(events[1], IsTextDelta) # {}
    /\ Positions(events[1], IsToolStart) # {}
    /\ IsMetadata(events[1][Len(events[1])])

\* The number of blocks open before position k: 0 or 1 when blocks do not nest.
OpenBefore(ev, k) == CountBefore(ev, k, IsBlockStart) - CountBefore(ev, k, IsBlockStop)

\* stream() has ended: it returned, or it raised.
Ended(i) == pc[i] \in {"done", "raised"}

\* C2: in every event sequence stream() emits, content blocks are bracketed and
\* never nested: a ContentBlockStart comes only when no block is open, a
\* ContentBlockDelta and a ContentBlockStop only when one block is open; and
\* MessageStop is emitted exactly once, after the last ContentBlockStop: never
\* twice, never while a block is open, and a stream that emitted events and has
\* ended holds one MessageStop with no ContentBlockStop after it.
C2_BracketedOneStop ==
    \A i \in Invocations :
        /\ \A k \in 1..Len(events[i]) :
            /\ IsBlockStart(events[i][k]) => OpenBefore(events[i], k) = 0
            /\ IsBlockDelta(events[i][k]) => OpenBefore(events[i], k) = 1
            /\ IsBlockStop(events[i][k]) => OpenBefore(events[i], k) = 1
            /\ IsMessageStop(events[i][k]) => OpenBefore(events[i], k) = 0
        /\ Cardinality(Positions(events[i], IsMessageStop)) <= 1
        /\ \A j \in Positions(events[i], IsBlockStop) :
               \A k \in Positions(events[i], IsMessageStop) : j < k
        /\ (Ended(i) /\ Len(events[i]) > 0) =>
               Cardinality(Positions(events[i], IsMessageStop)) = 1

\* The position of the stop of the text block: the first ContentBlockStop.
TextStop(ev) == CHOOSE k \in Positions(ev, IsBlockStop) : \A j \in Positions(ev, IsBlockStop) : k <= j

\* C3: no tool-use ContentBlockStart and no tool-input ContentBlockDelta is
\* emitted before the ContentBlockStop of the text block, and every text and
\* reasoning delta precedes every tool-use event.
C3_ToolsAfterText ==
    \A i \in Invocations :
        \A k \in Positions(events[i], IsToolEvent) :
            /\ Positions(events[i], IsBlockStop) # {}
            /\ TextStop(events[i]) < k
            /\ \A j \in Positions(events[i], IsTextDelta) \cup Positions(events[i], IsReasoningDelta) :
                   j < k

\* The chunks of r that carry tool-call fragments / text or reasoning.
HasFragments(chunk) ==
    /\ Len(chunk.choices) > 0
    /\ TruthyList(chunk.choices[1].delta.tool_calls)

HasTextOrReasoning(chunk) ==
    /\ Len(chunk.choices) > 0
    /\ \/ Truthy(chunk.choices[1].delta.content)
       \/ HasReasoning(chunk.choices[1].delta)

\* Tool-call fragments arrived before text and reasoning, and all were emitted.
C3_Witness ==
    /\ Completed(1)
    /\ Len(response[1]) >= 2
    /\ HasFragments(response[1][1])
    /\ HasTextOrReasoning(response[1][2])
    /\ Positions(events[1], IsToolStart) # {}
    /\ Positions(events[1], IsTextDelta) \cup Positions(events[1], IsReasoningDelta) # {}

\* ------------------------------------------------------------------------
\* Properties of the flushed tool calls
\* ------------------------------------------------------------------------

\* A chunk that declares a finish reason.
Finishes(chunk) == Len(chunk.choices) > 0 /\ chunk.choices[1].finish_reason # None

\* The length of the content phase of r: up to and including the first chunk
\* that declares a finish reason, the whole of r when none does.
ContentPhaseLen(r) ==
    IF \E k \in 1..Len(r) : Finishes(r[k])
    THEN CHOOSE k \in 1..Len(r) : Finishes(r[k]) /\ \A j \in 1..(k - 1) : ~Finishes(r[j])
    ELSE Len(r)

\* The tool-call fragments of one chunk, in the order the chunk lists them.
FragmentsOfChunk(chunk) ==
    IF Len(chunk.choices) > 0 /\ Has("list", chunk.choices[1].delta.tool_calls)
    THEN chunk.choices[1].delta.tool_calls.list
    ELSE << >>

\* The tool-call fragments of the first n chunks of r, in arrival order.
RECURSIVE FragmentsUpTo(_, _)
FragmentsUpTo(r, n) ==
    IF n = 0 THEN << >> ELSE FragmentsUpTo(r, n - 1) \o FragmentsOfChunk(r[n])

ContentFragments(r) == FragmentsUpTo(r, ContentPhaseLen(r))

IndexSet(fragments) == { fragments[k].index : k \in 1..Len(fragments) }

FragmentsAt(fragments, index) == SelectSeq(fragments, LAMBDA f : f.index = index)

\* The argument text of a fragment: a null contributes the empty string.
ArgumentText(fragment) ==
    IF fragment.function.arguments = None THEN "" ELSE fragment.function.arguments

\* The block of one tool call: its start from the first fragment, one delta per
\* fragment, its stop.
ToolBlock(fragments) ==
    << [contentBlockStart |->
           [start |-> [toolUse |-> [name |-> fragments[1].function.name,
                                    toolUseId |-> fragments[1].id]]]] >>
    \o [k \in 1..Len(fragments) |->
           [contentBlockDelta |-> [delta |-> [toolUse |-> [input |-> ArgumentText(fragments[k])]]]]]
    \o << [contentBlockStop |-> EmptyDict] >>

\* The blocks of the tool calls of `fragments`, taken in the order `order` of indices.
RECURSIVE ToolBlocks(_, _)
ToolBlocks(fragments, order) ==
    IF Len(order) = 0 THEN << >>
    ELSE ToolBlock(FragmentsAt(fragments, Head(order))) \o ToolBlocks(fragments, Tail(order))

\* Every arrangement of the set S as a sequence without repetition.
Orders(S) ==
    { s \in [1..Cardinality(S) -> S] : \A a, b \in 1..Cardinality(S) : s[a] = s[b] => a = b }

Ascending(S) == CHOOSE s \in Orders(S) : \A a, b \in 1..Cardinality(S) : a < b => s[a] < s[b]

\* The position of the MessageStop of ev.
StopPosition(ev) == CHOOSE k \in Positions(ev, IsMessageStop) : TRUE

\* The events between the stop of the text block and the MessageStop.
Flushed(ev) == SubSeq(ev, TextStop(ev) + 1, StopPosition(ev) - 1)

HasStopped(i) == Positions(events[i], IsMessageStop) # {}

\* C4: the accumulated tool calls are flushed in ascending order of their
\* declared index, whatever order the indices first appeared in: the events
\* between the stop of the text block and MessageStop are the blocks of the
\* indices taken in ascending order.
C4_AscendingIndexOrder ==
    \A i \in Invocations :
        HasStopped(i) =>
            Flushed(events[i]) =
                ToolBlocks(ContentFragments(response[i]),
                           Ascending(IndexSet(ContentFragments(response[i]))))

\* C5: stream() emits one tool-use block per tool-call index seen in the content
\* phase, holding one tool-input delta per fragment of that index in arrival
\* order (a null fragment as the empty string): the flushed events are the
\* blocks of the distinct indices in some order, so there are as many tool-use
\* starts as distinct indices and no fragment is lost, duplicated or moved.
C5_OneBlockPerIndex ==
    \A i \in Invocations :
        HasStopped(i) =>
            /\ \E order \in Orders(IndexSet(ContentFragments(response[i]))) :
                   Flushed(events[i]) = ToolBlocks(ContentFragments(response[i]), order)
            /\ Cardinality(Positions(events[i], IsToolStart)) =
                   Cardinality(IndexSet(ContentFragments(response[i])))
            /\ Cardinality(Positions(events[i], IsToolDelta)) =
                   Len(ContentFragments(response[i]))

\* Two indices, the fragments of index 0 split over two chunks, a null fragment.
C5_Witness ==
    /\ Completed(1)
    /\ IndexSet(ContentFragments(response[1])) = {0, 1}
    /\ Len(FragmentsAt(ContentFragments(response[1]), 0)) = 2
    /\ \E k \in 1..Len(ContentFragments(response[1])) :
           ContentFragments(response[1])[k].function.arguments = None
    /\ Cardinality(Positions(events[1], IsToolStart)) = 2

\* ------------------------------------------------------------------------
\* Properties of a failed gateway call
\* ------------------------------------------------------------------------

GatewayFailed(i) == ~IsNoneObj(gateway_error[i])

\* C6: when the initial gateway call raises, stream() has surfaced an error to
\* the consumer and the consumer has received no event.
C6_NoEventOnGatewayError ==
    \A i \in Invocations :
        GatewayFailed(i) =>
            /\ events[i] = << >>
            /\ pc[i] = "raised"
            /\ ~IsNoneObj(raised[i])

\* The one gateway call failed and the consumer holds the throttling error.
C6_Witness ==
    /\ GatewayFailed(1)
    /\ gateway_calls[1] = 1
    /\ raised[1].type = "ModelThrottledException"

\* The error texts by what they were built from.
OverflowPieces ==
    { MsgPromptCaps, INPUT_IS_TOO_LONG, MAXIMUM_CONTEXT_LENGTH, CONTEXT_WINDOW,
      CONTEXT_LENGTH_EXCEEDED, TOO_MANY_TOKENS }

ThrottlePieces == { MsgRateLimit, MsgErrorCode429, MsgOverloadedCaps, CODE_529, MsgGenerate }

BuiltWith(message, pieces) ==
    \E a, b \in MessagePieces :
        /\ message = a \o MsgSpace \o b
        /\ a \in pieces \/ b \in pieces

Classified(i, type) ==
    /\ raised[i].type = type
    /\ Has("cause", raised[i])
    /\ raised[i].cause = gateway_error[i]
    /\ raised[i].message = gateway_error[i].message

\* C7: an error whose text holds a context-overflow fragment, in any letter
\* case, is classified ContextWindowOverflow even when it also holds a
\* throttling fragment; one that holds only a throttling fragment is classified
\* Throttled; the raised exception carries the original error as its cause.
C7_ClassifierOrder ==
    \A i \in Invocations :
        GatewayFailed(i) =>
            /\ BuiltWith(gateway_error[i].message, OverflowPieces) =>
                   Classified(i, "ContextWindowOverflowException")
            /\ (/\ ~BuiltWith(gateway_error[i].message, OverflowPieces)
                /\ BuiltWith(gateway_error[i].message, ThrottlePieces)) =>
                   Classified(i, "ModelThrottledException")

\* "Rate limit Prompt Is Too Long": both kinds of fragment, in capitals.
C7_Witness ==
    /\ GatewayFailed(1)
    /\ gateway_error[1].message = MsgRateLimit \o MsgSpace \o MsgPromptCaps
    /\ raised[1].type = "ContextWindowOverflowException"

\* C8: an error of the gateway call whose text holds neither kind of fragment
\* reaches the consumer as the same error: same type, same text, not wrapped.
C8_UnmatchedUnchanged ==
    \A i \in Invocations :
        (/\ GatewayFailed(i)
         /\ ~BuiltWith(gateway_error[i].message, OverflowPieces)
         /\ ~BuiltWith(gateway_error[i].message, ThrottlePieces)) =>
            raised[i] = gateway_error[i]

\* "disk full context" was raised and received unchanged.
C8_Witness ==
    /\ GatewayFailed(1)
    /\ gateway_error[1].message = MsgDiskFull \o MsgSpace \o MsgContext
    /\ raised[1] = [type |-> "Exception", message |-> MsgDiskFull \o MsgSpace \o MsgContext]

\* ------------------------------------------------------------------------
\* Properties of the Metadata event
\* ------------------------------------------------------------------------

\* The usage objects of the chunks of r after the content phase.
TrailingUsages(r) ==
    { r[k].usage : k \in { j \in (ContentPhaseLen(r) + 1)..Len(r) : ~IsNoneObj(r[j].usage) } }

AnyUsage(r) == \E k \in 1..Len(r) : ~IsNoneObj(r[k].usage)

MetadataOf(usage) ==
    [metadata |-> [usage |-> [inputTokens |-> usage.prompt_tokens,
                              outputTokens |-> usage.completion_tokens,
                              totalTokens |-> usage.total_tokens],
                   metrics |-> [latencyMs |-> 0]]]

\* C9: a completed stream holds exactly one Metadata event, carrying the token
\* counts of that usage, whenever a chunk read after the finish-reason chunk
\* carried a usage object, wherever among the trailing chunks it came; it holds
\* no Metadata event when no chunk carried a usage object.
C9_MetadataIffUsage ==
    \A i \in Invocations :
        Completed(i) =>
            /\ TrailingUsages(response[i]) # {} =>
                   /\ Cardinality(Positions(events[i], IsMetadata)) = 1
                   /\ \E usage \in TrailingUsages(response[i]) :
                          \E k \in 1..Len(events[i]) : events[i][k] = MetadataOf(usage)
            /\ ~AnyUsage(response[i]) => Positions(events[i], IsMetadata) = {}

\* ------------------------------------------------------------------------
\* Properties of the request payload
\* ------------------------------------------------------------------------

Formatted == ~IsNoneObj(format_call) /\ ~format_call.outcome.raises

ToolSpecsSupplied == TruthyList(format_call.args.tool_specs)

ToolChoiceSupplied == ~IsNoneObj(format_call.args.tool_choice)

\* C10: the payload format_request builds has the tools key exactly when at
\* least one tool spec was supplied, and the tool_choice key exactly when it
\* has the tools key and a tool choice was supplied.
C10_ToolsKeys ==
    Formatted =>
        /\ Has("tools", format_call.outcome.value) <=> ToolSpecsSupplied
        /\ Has("tool_choice", format_call.outcome.value) <=>
               (Has("tools", format_call.outcome.value) /\ ToolChoiceSupplied)

\* ------------------------------------------------------------------------
\* Properties of the system message
\* ------------------------------------------------------------------------

\* The messages of the payload the call built.
PayloadMessages == format_call.outcome.value.messages

SystemPositions(messages) == { k \in 1..Len(messages) : messages[k].role = "system" }

SystemContentGiven == Has("list", format_call.args.system_prompt_content)

SystemBlocks == format_call.args.system_prompt_content.list

\* The texts of the Text blocks of `blocks`, in order, joined by single spaces.
RECURSIVE SpaceJoined(_)
SpaceJoined(blocks) ==
    IF Len(blocks) = 0 THEN ""
    ELSE IF ~Has("text", Head(blocks)) THEN SpaceJoined(Tail(blocks))
    ELSE IF \A k \in 2..Len(blocks) : ~Has("text", blocks[k]) THEN Head(blocks).text
    ELSE Head(blocks).text \o " " \o SpaceJoined(Tail(blocks))

\* C11: when systemPromptContent is an empty list the payload holds no system
\* message, even when a non-empty systemPrompt string is supplied too.
C11_EmptyListNoSystem ==
    (Formatted /\ SystemContentGiven /\ Len(SystemBlocks) = 0) =>
        SystemPositions(PayloadMessages) = {}

\* C12: when systemPromptContent is non-empty the payload holds at most one
\* system message, placed first, whose content is the space-joined text of its
\* Text blocks in order; the systemPrompt string is not used.
C12_ContentTakesPrecedence ==
    (Formatted /\ SystemContentGiven /\ Len(SystemBlocks) > 0) =>
        /\ SystemPositions(PayloadMessages) \subseteq {1}
        /\ \A k \in SystemPositions(PayloadMessages) :
               /\ PayloadMessages[k] = [role |-> "system", content |-> SpaceJoined(SystemBlocks)]
               /\ PayloadMessages[k].content # format_call.args.system_prompt
        /\ SpaceJoined(SystemBlocks) # "" => SystemPositions(PayloadMessages) = {1}

\* Two Text blocks around a cache point, with a systemPrompt string supplied too.
C12_Witness ==
    /\ Formatted
    /\ format_call.args.system_prompt = "Be helpful"
    /\ SystemContentGiven
    /\ Len(SystemBlocks) = 3
    /\ Len(format_call.args.messages) = 3
    /\ PayloadMessages[1] =
           [role |-> "system", content |-> "Important context. More context."]

\* C13: when systemPromptContent holds cache-point blocks only the payload
\* holds no system message, also when a systemPrompt string is supplied.
C13_CachePointsOnlyNoSystem ==
    (/\ Formatted
     /\ SystemContentGiven
     /\ Len(SystemBlocks) > 0
     /\ \A k \in 1..Len(SystemBlocks) : Has("cachePoint", SystemBlocks[k])) =>
        SystemPositions(PayloadMessages) = {}

\* Two cache points and the systemPrompt "Be helpful": the user message comes first.
C13_Witness ==
    /\ Formatted
    /\ SystemContentGiven
    /\ SystemBlocks = << CachePoint, CachePoint >>
    /\ format_call.args.system_prompt = "Be helpful"
    /\ Len(PayloadMessages) = 1
    /\ PayloadMessages[1].role = "user"

\* ------------------------------------------------------------------------
\* Properties of the formatted messages
\* ------------------------------------------------------------------------

IsContentBlock(block) == ~Has("toolUse", block) /\ ~Has("toolResult", block)

\* What a text or image block is in a host message and in the payload.
HostBlockSeen(block) == IF Has("text", block) THEN block.text ELSE "image"

PayloadBlockSeen(block) ==
    IF block.type = "text" THEN block.text
    ELSE IF block.type = "image_url" THEN "image"
    ELSE "other"

\* The messages the claim expects of one host message: the host-role message
\* with its text and image blocks and the ids of its tool uses, then one tool
\* message per tool result, with the number of blocks of its content.
ExpectedOf(message) ==
    << [role |-> message.role,
        blocks |-> [k \in 1..Len(SelectSeq(message.content, IsContentBlock)) |->
                       HostBlockSeen(SelectSeq(message.content, IsContentBlock)[k])],
        calls |-> [k \in 1..Len(SelectSeq(message.content, LAMBDA b : Has("toolUse", b))) |->
                      SelectSeq(message.content, LAMBDA b : Has("toolUse", b))[k].toolUse.toolUseId]] >>
    \o [k \in 1..Len(SelectSeq(message.content, LAMBDA b : Has("toolResult", b))) |->
           [role |-> "tool",
            tool_call_id |-> SelectSeq(message.content, LAMBDA b : Has("toolResult", b))[k].toolResult.toolUseId,
            size |-> Len(SelectSeq(message.content, LAMBDA b : Has("toolResult", b))[k].toolResult.content)]]

RECURSIVE ExpectedOfAll(_)
ExpectedOfAll(messages) ==
    IF Len(messages) = 0 THEN << >>
    ELSE ExpectedOf(Head(messages)) \o ExpectedOfAll(Tail(messages))

\* What a message of the payload is, in the same terms.
SeenOf(message) ==
    IF message.role = "tool"
    THEN [role |-> "tool", tool_call_id |-> message.tool_call_id, size |-> Len(message.content)]
    ELSE [role |-> message.role,
          blocks |-> [k \in 1..Len(message.content) |-> PayloadBlockSeen(message.content[k])],
          calls |-> IF Has("tool_calls", message)
                    THEN [k \in 1..Len(message.tool_calls) |-> message.tool_calls[k].id]
                    ELSE << >>]

\* The payload's messages after its system message, as seen.
SeenMessages ==
    [k \in 1..Len(SelectSeq(PayloadMessages, LAMBDA m : m.role # "system")) |->
        SeenOf(SelectSeq(PayloadMessages, LAMBDA m : m.role # "system")[k])]

\* An expected message that holds nothing: no block and no tool call.
HoldsNothing(expected) ==
    IF expected.role = "tool" THEN expected.size = 0
    ELSE Len(expected.blocks) = 0 /\ Len(expected.calls) = 0

\* C14 as written: for every host message list the payload holds, per host
\* message and in order, one host-role message with its text and image blocks
\* and its tool uses as tool_calls, followed at once by one tool message per
\* tool result, with that result's toolUseId.
C14_OneMessagePerHostMessage ==
    Formatted => SeenMessages = ExpectedOfAll(format_call.args.messages)

\* C14 as the code has it: the same messages in the same order, without those
\* that hold nothing: a host-role message with no text, image or tool use, and
\* a tool message whose result has an empty content list, are left out.
C14_MessagesInOrderWithoutEmpty ==
    Formatted =>
        SeenMessages =
            SelectSeq(ExpectedOfAll(format_call.args.messages), LAMBDA e : ~HoldsNothing(e))

\* Text, two tool uses, then two tool results around a text block.
C14_Witness ==
    /\ Formatted
    /\ format_call.args.messages = <<UserHi, AssistantCalls, UserResults>>
    /\ Len(SeenMessages) = 5
    /\ SeenMessages[2].calls = <<"t0", "t1">>
    /\ SeenMessages[4] = [role |-> "tool", tool_call_id |-> "t0", size |-> 1]

HostHoldsSomething(message) ==
    \E k \in 1..Len(message.content) : ~Has("toolResult", message.content[k])

ToolUsesOnly(message) ==
    /\ Len(message.content) > 0
    /\ \A k \in 1..Len(message.content) : Has("toolUse", message.content[k])

\* C15: no message of the payload has empty content and no tool calls; a host
\* message of tool uses only is kept, with empty content and its tool_calls;
\* host messages of tool results only give no host-role message, so the
\* host-role messages are as many as the host messages with another block.
C15_NoEmptyMessage ==
    Formatted =>
        /\ \A k \in 1..Len(PayloadMessages) :
               \/ Has("tool_calls", PayloadMessages[k])
               \/ IF PayloadMessages[k].role = "system"
                  THEN PayloadMessages[k].content # ""
                  ELSE Len(PayloadMessages[k].content) > 0
        /\ \A k \in 1..Len(format_call.args.messages) :
               ToolUsesOnly(format_call.args.messages[k]) =>
                   \E j \in 1..Len(SeenMessages) :
                       /\ SeenMessages[j].role = format_call.args.messages[k].role
                       /\ SeenMessages[j].blocks = << >>
                       /\ Len(SeenMessages[j].calls) = Len(format_call.args.messages[k].content)
        /\ Len(SelectSeq(SeenMessages, LAMBDA m : m.role # "tool")) =
               Len(SelectSeq(format_call.args.messages, HostHoldsSomething))

\* A tool use alone and a tool result alone: an assistant message without
\* content, a tool message, and no second user message.
C15_Witness ==
    /\ Formatted
    /\ format_call.args.messages = <<UserHi, AssistantCallOnly, UserResultOnly>>
    /\ format_call.args.system_prompt = None
    /\ ~SystemContentGiven
    /\ Len(PayloadMessages) = 3
    /\ PayloadMessages[2].content = << >>
    /\ Has("tool_calls", PayloadMessages[2])
    /\ PayloadMessages[3].role = "tool"

\* ------------------------------------------------------------------------
\* Properties of the core fields of the payload
\* ------------------------------------------------------------------------

\* C20: whatever the configured extra params, the payload has stream = true,
\* stream options that ask for usage, the configured model id as its model and
\* the formatted message list as its messages.
C20_CoreFieldsKept ==
    Formatted =>
        /\ format_call.outcome.value.stream = TRUE
        /\ format_call.outcome.value.stream_options = [include_usage |-> TRUE]
        /\ format_call.outcome.value.model = config.model_id
        /\ format_call.outcome.value.messages =
               format_request_messages(format_call.args.messages,
                                       format_call.args.system_prompt,
                                       format_call.args.system_prompt_content).value

\* ------------------------------------------------------------------------
\* Properties of the stop reason
\* ------------------------------------------------------------------------

\* The finish reason of the chunk that ended the content phase of r; None when
\* the stream ended with no chunk declaring one.
EndingReason(r) ==
    IF \E k \in 1..Len(r) : Finishes(r[k])
    THEN r[ContentPhaseLen(r)].choices[1].finish_reason
    ELSE None

ExpectedStopReason(finish_reason) ==
    IF finish_reason = "tool_calls" THEN "tool_use"
    ELSE IF finish_reason = "length" THEN "max_tokens"
    ELSE "end_turn"

\* C19: the stop reason of the emitted MessageStop is that of the finish reason
\* of the chunk that ended the content phase: tool_calls gives tool_use, length
\* gives max_tokens, anything else end_turn; it stays so whatever is read later.
C19_StopReason ==
    \A i \in Invocations :
        HasStopped(i) =>
            events[i][StopPosition(events[i])] =
                [messageStop |-> [stopReason |-> ExpectedStopReason(EndingReason(response[i]))]]

\* The content phase ended with tool_calls and a later chunk declared length.
C19_Witness ==
    /\ Completed(1)
    /\ EndingReason(response[1]) = "tool_calls"
    /\ ContentPhaseLen(response[1]) < Len(response[1])
    /\ Finishes(response[1][Len(response[1])])
    /\ response[1][Len(response[1])].choices[1].finish_reason = "length"
    /\ events[1][StopPosition(events[1])].messageStop.stopReason = "tool_use"


\* ------------------------------------------------------------------------
\* Configuration
\* ------------------------------------------------------------------------

\* A model id is blank when it holds nothing but whitespace.
Blank(model_id) == \A k \in 1..Len(model_id) : model_id[k] \in WHITESPACE

\* The model id the last call supplied is blank.
BlankSupplied ==
    /\ ~IsNoneObj(config_call)
    /\ Has("model_id", config_call.model_config)
    /\ Blank(config_call.model_config.model_id)

\* The last call was an update_config that succeeded.
UpdateSucceeded ==
    /\ ~IsNoneObj(config_call)
    /\ config_call.op = "update_config"
    /\ ~config_call.outcome.raises

\* C17: a construction or an update with a blank model id fails with a
\* validation error and leaves the configuration as it was; a successful
\* update sets exactly the supplied fields and keeps the others; the
\* configuration of an adapter never has a blank model id.
C17_ConfigValidated ==
    /\ BlankSupplied =>
        /\ config_call.outcome.raises
        /\ config_call.outcome.exc.type = "ValidationError"
        /\ config = config_call.before
    /\ UpdateSucceeded =>
        \A field \in {"model_id", "params"} :
            config[field] = IF Has(field, config_call.model_config)
                            THEN config_call.model_config[field]
                            ELSE config_call.before[field]
    /\ ~IsNoneObj(config) => ~Blank(config.model_id)

\* A whitespace-only update was refused after a successful partial update of
\* an adapter whose model id is padded with whitespace.
C17_Witness ==
    /\ BlankSupplied
    /\ config_call.op = "update_config"
    /\ Len(config_call.model_config.model_id) > 0
    /\ config.model_id = PaddedGpt4o
    /\ ~IsNoneObj(config.params)


\* ------------------------------------------------------------------------
\* Structured output
\* ------------------------------------------------------------------------

\* The parse call of the invocation has returned.
ParseReturned == ~IsNoneObj(structured) /\ ~IsNoneObj(structured.response)

\* The single choice of the response holds an instance of the requested schema.
OneValidChoice ==
    /\ Len(structured.response.choices) = 1
    /\ isinstance(structured.response.choices[1].message.parsed,
                  structured.args.output_model)

\* C18: a response with exactly one choice whose parsed payload is an instance
\* of the requested schema gives exactly one result event wrapping it; more
\* than one choice gives the multiple-choices error; no choice, or a single
\* choice that is not an instance, gives the no-valid-output error; there is
\* never more than one event.
C18_OneResultOrError ==
    /\ ~IsNoneObj(structured) => Len(structured.events) <= 1
    /\ ParseReturned =>
        IF Len(structured.response.choices) > 1
        THEN structured.raised = MultipleChoicesError /\ structured.events = << >>
        ELSE IF OneValidChoice
        THEN /\ structured.raised = NoneObj
             /\ structured.events
                  = << [output |-> structured.response.choices[1].message.parsed] >>
        ELSE structured.raised = NoValidOutputError /\ structured.events = << >>


\* ------------------------------------------------------------------------
\* Concurrent invocations
\* ------------------------------------------------------------------------

\* The text and reasoning deltas of the first n chunks of r.
RECURSIVE ContentDeltas(_, _)
ContentDeltas(r, n) ==
    IF n = 0 THEN << >>
    ELSE ContentDeltas(r, n - 1)
         \o (IF Len(r[n].choices) > 0 /\ Truthy(r[n].choices[1].delta.content)
             THEN << [contentBlockDelta |->
                        [delta |-> [text |-> r[n].choices[1].delta.content]]] >>
             ELSE << >>)
         \o (IF Len(r[n].choices) > 0 /\ HasReasoning(r[n].choices[1].delta)
             THEN << [contentBlockDelta |->
                        [delta |-> [reasoningContent |->
                                      [text |-> r[n].choices[1].delta.reasoning_content]]]] >>
             ELSE << >>)

\* The indices of `fragments` in the order of their first appearance.
RECURSIVE FirstSeen(_)
FirstSeen(fragments) ==
    IF Len(fragments) = 0 THEN << >>
    ELSE LET before == FirstSeen(SubSeq(fragments, 1, Len(fragments) - 1))
             index == fragments[Len(fragments)].index
         IN IF \E k \in 1..Len(before) : before[k] = index THEN before
            ELSE Append(before, index)

\* The chunks of the content phase of r that have a choice.
ChoiceChunks(r) == { k \in 1..ContentPhaseLen(r) : Len(r[k].choices) > 0 }

\* What one invocation emits up to the flush of its tool calls when it runs
\* alone on the upstream stream r.
AloneContent(r) ==
    << [messageStart |-> [role |-> "assistant"]],
       [contentBlockStart |-> [start |-> EmptyDict]] >>
    \o ContentDeltas(r, ContentPhaseLen(r))
    \o << [contentBlockStop |-> EmptyDict] >>
    \o ToolBlocks(ContentFragments(r), FirstSeen(ContentFragments(r)))

\* What it emits after the flush: the MessageStop, then the Metadata of the
\* last chunk read.
AloneEnding(r) ==
    << [messageStop |-> [stopReason |-> ExpectedStopReason(EndingReason(r))]] >>
    \o (IF IsNoneObj(r[Len(r)].usage) THEN << >>
        ELSE << [metadata |->
                   [usage |-> [inputTokens |-> r[Len(r)].usage.prompt_tokens,
                               outputTokens |-> r[Len(r)].usage.completion_tokens,
                               totalTokens |-> r[Len(r)].usage.total_tokens],
                    metrics |-> [latencyMs |-> 0]]] >>)

\* The whole run of one invocation alone on r: the events it emits and the
\* exception it ends with, if any.
AloneRun(r) ==
    IF ChoiceChunks(r) = {}
    THEN [events |-> AloneContent(r),
          raised |-> [type |-> "UnboundLocalError", name |-> "choice"]]
    ELSE [events |-> AloneContent(r) \o AloneEnding(r), raised |-> NoneObj]

IsPrefix(s, t) == Len(s) <= Len(t) /\ s = SubSeq(t, 1, Len(s))

\* The gateway call of invocation i has returned its stream.
Streaming(i) == Len(events[i]) > 0

\* C16: in every interleaving of two invocations of stream() on one adapter,
\* what an invocation has emitted is the beginning of what it emits alone on
\* its own upstream stream, and when it ends it has emitted exactly that and
\* ends the same way.
C16_IndependentInvocations ==
    \A i \in Invocations :
        Streaming(i) =>
            /\ IsPrefix(events[i], AloneRun(response[i]).events)
            /\ Ended(i) =>
                /\ events[i] = AloneRun(response[i]).events
                /\ raised[i] = AloneRun(response[i]).raised

\* Both invocations ran to completion on different streams that carry
\* fragments for the same tool-call index, and emitted different events.
C16_Witness ==
    /\ Completed(1) /\ Completed(2)
    /\ response[1] # response[2]
    /\ IndexSet(ContentFragments(response[1])) \cap IndexSet(ContentFragments(response[2])) # {}
    /\ events[1] # events[2]


\* ------------------------------------------------------------------------
\* Properties of the gateway call
\* ------------------------------------------------------------------------

\* The request of invocation i was formatted and handed to the gateway.
CallIssued(i) == ~IsNoneObj(request[i])

\* C21: an invocation of stream() issues its gateway call once: never twice in
\* any state, exactly once as soon as its request is formatted, and still once
\* after the call failed with a throttling or overflow error.
C21_OneGatewayCall ==
    \A i \in Invocations :
        /\ gateway_calls[i] <= 1
        /\ CallIssued(i) => gateway_calls[i] = 1
        /\ GatewayFailed(i) => CallIssued(i) /\ gateway_calls[i] = 1

\* The one call failed with an overflow error, which was classified.
C21_Witness ==
    /\ GatewayFailed(1)
    /\ raised[1].type = "ContextWindowOverflowException"
    /\ gateway_calls[1] = 1


\* ------------------------------------------------------------------------
\* Properties of the content phase
\* ------------------------------------------------------------------------

\* The text and reasoning deltas among the events ev, in order.
DeltasOf(ev) == SelectSeq(ev, LAMBDA e : IsTextDelta(e) \/ IsReasoningDelta(e))

\* The text block of invocation i has been closed.
TextClosed(i) == Positions(events[i], IsBlockStop) # {}

\* C22: the content phase is the raw stream up to and including the first
\* chunk that declares a finish reason: the text and reasoning deltas emitted
\* are those of these chunks, the tool blocks flushed are built from their
\* fragments, nothing of a later chunk is emitted, and when stream() completes
\* every chunk of the upstream stream has been read.
C22_ContentPhaseThenDrain ==
    \A i \in Invocations :
        Streaming(i) =>
            /\ IsPrefix(DeltasOf(events[i]),
                        ContentDeltas(response[i], ContentPhaseLen(response[i])))
            /\ TextClosed(i) =>
                   DeltasOf(events[i])
                     = ContentDeltas(response[i], ContentPhaseLen(response[i]))
            /\ HasStopped(i) =>
                   Flushed(events[i])
                     = ToolBlocks(ContentFragments(response[i]),
                                  FirstSeen(ContentFragments(response[i])))
            /\ Completed(i) => pos[i] = Len(response[i])

\* The first chunk declared a finish reason and carried text, which was
\* emitted; the chunks after it carried text and fragments, and were read.
C22_Witness ==
    /\ Completed(1)
    /\ Len(response[1]) = 3
    /\ Finishes(response[1][1])
    /\ HasTextOrReasoning(response[1][1])
    /\ Len(DeltasOf(events[1])) = 1
    /\ HasTextOrReasoning(response[1][2])
    /\ HasFragments(response[1][3])
    /\ pos[1] = 3


\* ------------------------------------------------------------------------
\* Properties of the text block
\* ------------------------------------------------------------------------

\* The start of a text block: a ContentBlockStart that names no tool.
EmptyTextStart == [contentBlockStart |-> [start |-> EmptyDict]]

\* C23: after a successful gateway call the second event is the empty
\* ContentBlockStart of the text block, and that block is closed by a
\* ContentBlockStop before any tool-use block is opened and before the
\* MessageStop, whether or not any text arrived.
C23_TextBlockAlways ==
    \A i \in Invocations :
        /\ Len(events[i]) >= 1 => IsMessageStart(events[i][1])
        /\ Len(events[i]) >= 2 => events[i][2] = EmptyTextStart
        /\ \A k \in Positions(events[i], IsToolStart) \cup Positions(events[i], IsMessageStop) :
               /\ TextClosed(i)
               /\ TextStop(events[i]) < k
               /\ \A j \in 3..(TextStop(events[i]) - 1) :
                      IsTextDelta(events[i][j]) \/ IsReasoningDelta(events[i][j])

\* A response with tool-call fragments and no text or reasoning completed: the
\* text block was opened and closed empty, then the tool block followed.
C23_Witness ==
    /\ Completed(1)
    /\ DeltasOf(events[1]) = << >>
    /\ TextStop(events[1]) = 3
    /\ IsToolStart(events[1][4])


\* ------------------------------------------------------------------------
\* Properties of chunks without choices
\* ------------------------------------------------------------------------

HasFinish(r) == \E k \in 1..Len(r) : Finishes(r[k])

\* r without the chunks that have no choices and come before the chunk that
\* declares the finish reason.
WithoutKeepalives(r) ==
    SelectSeq(SubSeq(r, 1, ContentPhaseLen(r) - 1), LAMBDA chunk : Len(chunk.choices) > 0)
    \o SubSeq(r, ContentPhaseLen(r), Len(r))

\* Invocation i is about to read, in its content loop, a chunk without choices.
KeepaliveNext(i) ==
    /\ pc[i] = "await_chunk"
    /\ pos[i] < Len(response[i])
    /\ Len(response[i][pos[i] + 1].choices) = 0

\* The step of an invocation that reads a chunk without choices changes nothing
\* but what was read.
KeepaliveStep(i) ==
    (KeepaliveNext(i) /\ pos'[i] = pos[i] + 1) =>
        /\ events' = events
        /\ raised' = raised
        /\ tool_calls' = tool_calls
        /\ choice' = choice
        /\ pc'[i] = "await_chunk"

\* What an invocation that has ended emitted is what a run on its stream
\* without those chunks emits.
SameWithoutKeepalives(i) ==
    (pc'[i] \in {"done", "raised"} /\ Len(events'[i]) > 0 /\ HasFinish(response'[i])) =>
        events'[i] = AloneRun(WithoutKeepalives(response'[i])).events

\* C24: a chunk without choices read in the content phase emits nothing,
\* leaves the accumulator and the remembered choice as they were and does not
\* end the content phase; the events of a stream are those of the same stream
\* without such chunks before its finishing chunk.
C24_KeepaliveNoOp ==
    [][\A i \in Invocations : KeepaliveStep(i) /\ SameWithoutKeepalives(i)]_vars

\* A stream of a chunk without choices, a text chunk and a finishing chunk
\* completed.
C24_Witness ==
    /\ Completed(1)
    /\ Len(response[1]) = 3
    /\ Len(response[1][1].choices) = 0
    /\ HasTextOrReasoning(response[1][2])
    /\ Finishes(response[1][3])
    /\ Len(DeltasOf(events[1])) >= 1


\* ------------------------------------------------------------------------
\* Properties of an upstream stream that raises
\* ------------------------------------------------------------------------

\* What invocation i had emitted when the stream r raised after its last
\* chunk: in the content loop when no chunk of r declared a finish reason,
\* in the drain loop otherwise.
EmittedBeforeRaise(r) ==
    IF HasFinish(r)
    THEN AloneContent(r)
         \o << [messageStop |-> [stopReason |-> ExpectedStopReason(EndingReason(r))]] >>
    ELSE << [messageStart |-> [role |-> "assistant"]], EmptyTextStart >>
         \o ContentDeltas(r, Len(r))

\* After this step the upstream stream of invocation i has raised.
UpstreamFailedNext(i) == ~IsNoneObj(upstream_error'[i])

\* C25: an exception the upstream stream raises while it is consumed reaches
\* the consumer as it is, not classified even when its text holds a throttling
\* or an overflow fragment; the events emitted before it stay emitted, and no
\* MessageStop and no Metadata follows it.
C25_UpstreamErrorUnchanged ==
    [][\A i \in Invocations :
          /\ IsPrefix(events[i], events'[i])
          /\ UpstreamFailedNext(i) =>
              /\ pc'[i] = "raised"
              /\ raised'[i] = upstream_error'[i]
              /\ events'[i] = EmittedBeforeRaise(response'[i])
              /\ Positions(events'[i], IsMetadata) = {}
              /\ ~HasFinish(response'[i]) => Positions(events'[i], IsMessageStop) = {}]_vars

\* The stream raised "Rate limit" after a text delta was emitted.
C25_Witness ==
    /\ ~IsNoneObj(upstream_error[1])
    /\ upstream_error[1].message = MsgRateLimit
    /\ raised[1].type = "Exception"
    /\ Len(DeltasOf(events[1])) >= 1
    /\ Positions(events[1], IsMessageStop) = {}


\* ------------------------------------------------------------------------
\* Properties of the reading of the upstream stream
\* ------------------------------------------------------------------------

\* The number of events a run on r can emit while it has read p chunks of r.
Producible(r, p) ==
    IF p < ContentPhaseLen(r) THEN 2 + Len(ContentDeltas(r, p))
    ELSE IF p < Len(r) THEN Len(AloneContent(r)) + 1
    ELSE Len(AloneRun(r).events)

\* The least number of chunks of r that must be read to emit k events; the
\* whole of r when the run never emits that many.
Needed(r, k) ==
    IF \E p \in 0..Len(r) : Producible(r, p) >= k
    THEN CHOOSE p \in 0..Len(r) :
             /\ Producible(r, p) >= k
             /\ \A q \in 0..(p - 1) : Producible(r, q) < k
    ELSE Len(r)

\* The generator of invocation i is suspended at a yield, or was closed there.
Suspended(i) == pc[i] \in YIELDS \cup {"closed"}

\* C26: stream() reads the upstream stream lazily: while it works on the next
\* event it has read no more chunks than that event needs, and while it is
\* suspended, or after the consumer stopped, it has read exactly the chunks the
\* events emitted so far needed.
C26_LazyReads ==
    \A i \in Invocations :
        Streaming(i) =>
            /\ pos[i] <= Needed(response[i], Len(events[i]) + 1)
            /\ Suspended(i) => pos[i] = Needed(response[i], Len(events[i]))

\* The consumer stopped after a text delta of the first chunk; the other
\* chunks of the stream were not read.
C26_Witness ==
    /\ pc[1] = "closed"
    /\ Len(response[1]) = 3
    /\ pos[1] = 1
    /\ Len(DeltasOf(events[1])) = 1


\* ------------------------------------------------------------------------
\* Properties of unsupported content
\* ------------------------------------------------------------------------

\* A block of a host message that is none of text, image, toolUse, toolResult.
UnsupportedBlock(block) ==
    ~(Has("text", block) \/ Has("image", block) \/ Has("toolUse", block)
      \/ Has("toolResult", block))

\* A block of the content of a tool result that is none of text, image, json.
UnsupportedResultBlock(block) ==
    ~(Has("text", block) \/ Has("image", block) \/ Has("json", block))

HasUnsupported(messages) ==
    \E m \in 1..Len(messages) : \E k \in 1..Len(messages[m].content) :
        \/ UnsupportedBlock(messages[m].content[k])
        \/ /\ Has("toolResult", messages[m].content[k])
           /\ \E j \in 1..Len(messages[m].content[k].toolResult.content) :
                  UnsupportedResultBlock(messages[m].content[k].toolResult.content[j])

\* stream() was called for invocation i.
Called(i) == ~IsNoneObj(call_args[i])

\* C27: when a host message, or the content of a tool result, holds a block of
\* an unsupported kind, stream() fails with the unsupported-type error, makes
\* no gateway call and emits no event.
C27_UnsupportedContentFails ==
    \A i \in Invocations :
        (Called(i) /\ HasUnsupported(call_args[i].messages)) =>
            /\ pc[i] = "raised"
            /\ raised[i].type = "TypeError"
            /\ IsNoneObj(request[i])
            /\ gateway_calls[i] = 0
            /\ events[i] = << >>

\* The call whose tool result holds a video block failed on that block.
C27_Witness ==
    /\ Called(1)
    /\ call_args[1].messages = <<UserHi, UserResultVideo>>
    /\ raised[1] = [type |-> "TypeError", content_type |-> "video"]
    /\ gateway_calls[1] = 0


\* ------------------------------------------------------------------------
\* Properties of termination
\* ------------------------------------------------------------------------

\* C28: after a successful gateway call stream() never raises, whatever finite
\* chunk sequence it is given, and when it has completed it has emitted
\* exactly one MessageStop, whose stop reason is end_turn when no chunk
\* declared a finish reason.
C28_AlwaysCompletes ==
    \A i \in Invocations :
        Streaming(i) =>
            /\ pc[i] # "raised"
            /\ Completed(i) =>
                /\ Cardinality(Positions(events[i], IsMessageStop)) = 1
                /\ ~HasFinish(response[i]) =>
                       events[i][StopPosition(events[i])].messageStop.stopReason = "end_turn"


\* ------------------------------------------------------------------------
\* Properties of a failed update
\* ------------------------------------------------------------------------

\* The last call was an update_config that raised.
UpdateFailed ==
    /\ ~IsNoneObj(config_call)
    /\ config_call.op = "update_config"
    /\ config_call.outcome.raises

\* C29: when the merged configuration of an update_config call fails
\* validation the call raises the validation error and the configuration is
\* the one that was current before the call, in every field.
C29_FailedUpdateKeepsConfig ==
    UpdateFailed =>
        /\ config_call.outcome.exc.type = "ValidationError"
        /\ config = config_call.before
        /\ ~IsNoneObj(config)
        /\ ~Blank(config.model_id)

\* An update that supplied a blank model id together with new params failed
\* on an adapter that an earlier update had changed: neither field was stored.
C29_Witness ==
    /\ UpdateFailed
    /\ Has("params", config_call.model_config)
    /\ config_call.model_config.params # config.params
    /\ config.model_id = Gpt35Turbo
    /\ ~IsNoneObj(config.params)


\* ------------------------------------------------------------------------
\* Properties of an update during a stream
\* ------------------------------------------------------------------------

\* The payload an invocation builds from the configuration c and its arguments.
PayloadOf(c, args) ==
    format_request(c, args.messages, args.tool_specs, args.system_prompt, args.tool_choice,
                   args.system_prompt_content)

\* In this step invocation i builds its request and issues the gateway call.
Builds(i) == pc[i] = "idle" /\ pc'[i] = "create"

\* C30: the payload of an invocation is built from the configuration that is
\* current when stream() is called and never changes afterwards; a step that
\* changes the configuration changes no payload and no emitted event; and the
\* events of an invocation are those of its upstream stream alone.
C30_UpdateDuringStream ==
    [][\A i \in Invocations :
          /\ Builds(i) => request'[i] = PayloadOf(config, call_args'[i]).value
          /\ pc[i] # "idle" => request'[i] = request[i]
          /\ config' # config => events' = events /\ request' = request
          /\ Len(events'[i]) > 0 =>
                 IsPrefix(events'[i], AloneRun(response'[i]).events)]_vars

\* Invocation 1, whose payload names gpt-4o, is in the middle of its stream
\* after an update to gpt-3.5-turbo, and invocation 2, called after the
\* update, has built a payload that names gpt-3.5-turbo.
C30_Witness ==
    /\ pc[1] = "text_delta"
    /\ request[1].model = Gpt4o
    /\ config.model_id = Gpt35Turbo
    /\ pc[2] = "create"
    /\ request[2].model = Gpt35Turbo

====
